---- MODULE Spec2Model ----
(***************************************************************************)
(* Request execution pipeline of the Semrush MCP server                    *)
(* (src/src/semrush-api.ts, configured by src/src/config.ts).              *)
(*                                                                         *)
(* One Node.js process: every callback runs to completion, so each action  *)
(* below is one synchronous block of the source (up to its next await or   *)
(* timer).  Time is Date.now() in milliseconds.                            *)
(***************************************************************************)
EXTENDS Integers, Sequences, FiniteSets, TLC

(* ------------------------------ bounds -------------------------------- *)
MaxCalls    == 3      \* calls of makeRequest (tool invocations) in one behaviour
MaxStart    == 1500   \* no call starts after this instant (ms)
TickStep    == 500    \* granularity of the clock (ms)
MaxLate     == 400    \* how late the event loop may run a due timer (ms)
API_CACHE_TTL_SECONDS == 1   \* configured cache TTL explored (seconds)
ErrorCalls  == 2      \* calls in a behaviour that explores every kind of failure
MaxSessions == 2      \* sessions the HTTP server opens in one behaviour

(* ------------------------- program constants -------------------------- *)
Window          == 1000   \* canMakeRequest: oneSecondAgo = now - 1000
PollInterval    == 100    \* waitForRateLimit: setTimeout(checkRateLimit, 100)
DefaultRateLimit == 10    \* config: API_RATE_LIMIT_PER_SECOND || '10'
FallbackStatus  == 500    \* makeRequest: error.response?.status || 500
DeclaredTools   == 19     \* entries of TOOLS (config.ts)
MsPerSecond     == 1000   \* node-cache: ttl is in seconds, Date.now() in ms

Callers == 1..MaxCalls    \* the callers, numbered in the order they call makeRequest
Keys    == {"k1", "k2"}   \* cache keys `${url}:${JSON.stringify(requestParams)}`
NoKey   == "none"         \* no call of the caller is running

Undefined == "undefined"

\* Instant by which every call started by MaxStart has been admitted, however
\* late its polls ran: one expired window plus one tick per caller.
MaxTime == MaxStart + MaxCalls * (Window + TickStep)

VARIABLES
  now,                \* Date.now()
  rateLimit,          \* RateLimiter.rateLimit
  requestTimestamps,  \* RateLimiter.requestTimestamps
  apiCache,           \* apiCache (NodeCache): key -> entry
  pc,                 \* position of each caller's current makeRequest call
  cacheKey,           \* cacheKey of each caller's current call
  due,                \* instant the caller's setTimeout(checkRateLimit) is due
  result,             \* what the call settled with (envelope or SemrushApiError)
  settled,            \* what the call's axios promise settled with
  admitLog,           \* history: instants of every admission granted
  logged,             \* lines logger.error wrote for the call's failure
  toolResult,         \* what the tool handler returned for the call
  apiKey,             \* config.SEMRUSH_API_KEY
  client,             \* semrushApi: "unconstructed", "ready" or "failed"
  invocation,         \* the operation called last, with its arguments
  request,            \* the URL and requestParams makeRequest built for it
  toolCall,           \* the tools/call request handled last: name and arguments
  toolReply,          \* what its handler returned before reaching an operation
  transports,         \* transports.streamable: the session ids registered
  sseTransports,      \* transports.sse: the session ids registered
  closed,             \* session ids of the transports that were closed
  connection,         \* <<session id, server instance its transport is connected to>>
  issued,             \* number of session ids randomUUID() has produced
  httpRequest,        \* the request to /mcp handled last
  httpResponse        \* how it was answered, and by which transport

pipeVars == <<now, rateLimit, requestTimestamps, apiCache, pc, cacheKey, due,
              result, settled, admitLog, logged, toolResult>>

handlerVars == <<toolCall, toolReply>>

serverVars == <<transports, sseTransports, closed, connection, issued,
                httpRequest, httpResponse>>

clientVars == <<apiKey, client, invocation, request, handlerVars, serverVars>>

vars == <<pipeVars, clientVars>>

(* ---------------------------- configuration --------------------------- *)
\* Values of the environment variable API_RATE_LIMIT_PER_SECOND explored:
\* unset/empty (""), and decimal integers.
EnvRateLimits == {"", "-1", "0", "1", "2"}

\* parseInt(s, 10) on the decimal strings above.
parseInt(s) ==
  CASE s = "-1" -> 0 - 1
    [] s = "0"  -> 0
    [] s = "1"  -> 1
    [] s = "2"  -> 2
    [] s = "10" -> DefaultRateLimit

\* config.API_RATE_LIMIT_PER_SECOND =
\*   parseInt(process.env.API_RATE_LIMIT_PER_SECOND || '10', 10)
ConfigRateLimit(env) == parseInt(IF env = "" THEN "10" ELSE env)

(* ----------------------------- rate limiter --------------------------- *)
\* A filter that forgets a timestamp after half the window.
FilterTimestampsHalfWindow(ts, t) == SelectSeq(ts, LAMBDA x : x > t - (Window \div 2))

\* canMakeRequest, line 26: drop the timestamps that are not newer than
\* one second ago.
FilterTimestamps(ts, t) == SelectSeq(ts, LAMBDA x : x > t - Window)

\* An off-by-one test: <= instead of <.
canMakeRequestOffByOne(ts, limit) == Len(ts) <= limit

\* canMakeRequest, line 29: this.requestTimestamps.length < this.rateLimit
canMakeRequest(ts, limit) == Len(ts) < limit

\* A grant whose timestamp is not pushed in the same block as the test.
recordRequestDeferred(ts, t) == ts

\* recordRequest: this.requestTimestamps.push(Date.now())
recordRequest(ts, t) == Append(ts, t)

(* -------------------------------- cache ------------------------------- *)
\* A NodeCache entry: value v, and t the instant it expires (0 = never);
\* stored remembers the instant of the set.
NoResult == [kind |-> "none", status |-> 0, data |-> Undefined, message |-> Undefined]
NoEntry  == [present |-> FALSE, v |-> NoResult, t |-> 0, stored |-> 0]

\* NodeCache set with the standard TTL: t = now + stdTTL * 1000, and a
\* standard TTL of 0 means the entry never expires.
Livetime(ttlSeconds, t) == IF ttlSeconds = 0 THEN 0 ELSE t + ttlSeconds * MsPerSecond

\* A cache that serves an entry whatever its age.
CacheLiveForever(e, t) == e.present

\* NodeCache get: an entry is served unless it has expired (t # 0 and t < now).
\* (An expired entry is as good as absent; its removal is not modelled.)
CacheLive(e, t) == e.present /\ ~(e.t # 0 /\ e.t < t)

\* A lookup that always misses.
CacheGetMiss(cache, k, t) == NoResult

\* apiCache.get(cacheKey): the stored envelope, or undefined.
CacheGet(cache, k, t) == IF CacheLive(cache[k], t) THEN cache[k].v ELSE NoResult

\* apiCache.set(cacheKey, apiResponse)
CacheSet(cache, k, v, t) ==
  [cache EXCEPT ![k] = [present |-> TRUE, v |-> v,
                        t |-> Livetime(API_CACHE_TTL_SECONDS, t), stored |-> t]]

(* ------------------------------ upstream ------------------------------ *)
\* What the axios call can settle with: an HTTP response (status, body), a
\* transport failure without a response, or a non-axios exception.
\* Bodies: "p1", "p2" are payloads without an error field; "denied" is
\* {error: {message: "Access denied"}}; "blank" is {error: {message: ""}}.
Bodies == {"p1", "p2", "denied", "blank"}
NoOutcome == [kind |-> "none", status |-> 0, body |-> Undefined]
Outcomes ==
  {[kind |-> "response", status |-> 200, body |-> "p1"],
   [kind |-> "response", status |-> 200, body |-> "p2"],
   [kind |-> "response", status |-> 403, body |-> "denied"],
   [kind |-> "response", status |-> 403, body |-> "p1"],
   [kind |-> "response", status |-> 403, body |-> "blank"],
   [kind |-> "network",   status |-> 0, body |-> Undefined],
   [kind |-> "exception", status |-> 0, body |-> Undefined]}

\* The outcomes that differ for the cache and the limiter: two payloads, a
\* rejected response and a failure without a response.
CoreOutcomes ==
  {[kind |-> "response", status |-> 200, body |-> "p1"],
   [kind |-> "response", status |-> 200, body |-> "p2"],
   [kind |-> "response", status |-> 403, body |-> "denied"],
   [kind |-> "network",  status |-> 0,   body |-> Undefined]}

\* A client configured to resolve on every status.
validateStatusAny(status) == TRUE

\* axios default validateStatus (makeRequest passes no other): the promise
\* resolves for 2xx and rejects with an AxiosError otherwise.
validateStatus(status) == status >= 200 /\ status < 300

\* error.response?.data?.error?.message of a body
NestedErrorMessage(body) ==
  CASE body = "denied" -> "Access denied"
    [] body = "blank"  -> ""
    [] OTHER           -> Undefined

\* JavaScript truthiness of a string or undefined (the left side of ||)
Truthy(x) == x # Undefined /\ x # ""

\* error.message of what axios (or anything else in the try block) threw
ErrorMessage(o) ==
  CASE o.kind = "response"  -> "Request failed with status code " \o ToString(o.status)
    [] o.kind = "network"   -> "connect ECONNREFUSED"
    [] o.kind = "exception" -> "unexpected"

\* lines 126-130: the SemrushApiResponse built from an axios response
\* (headers are carried along with status and are not modelled apart).
ApiResponse(o) ==
  [kind |-> "envelope", status |-> o.status, data |-> o.body, message |-> Undefined]

\* lines 136-147: the SemrushApiError thrown from the catch block
ApiErrorTransportMessage(o) ==
  [kind    |-> "error",
   status  |-> IF o.kind = "response" THEN o.status ELSE FallbackStatus,
   data    |-> IF o.kind = "response" THEN o.body ELSE Undefined,
   message |-> ErrorMessage(o)]

ApiErrorNoFallback(o) ==
  [kind    |-> "error",
   status  |-> o.status,
   data    |-> IF o.kind = "response" THEN o.body ELSE Undefined,
   message |-> IF o.kind = "response" /\ Truthy(NestedErrorMessage(o.body))
               THEN NestedErrorMessage(o.body) ELSE ErrorMessage(o)]

ApiError(o) ==
  IF o.kind \in {"response", "network"}
  THEN \* error instanceof AxiosError
       [kind    |-> "error",
        status  |-> IF o.kind = "response" THEN o.status ELSE FallbackStatus,
        data    |-> IF o.kind = "response" THEN o.body ELSE Undefined,
        message |-> IF o.kind = "response" /\ Truthy(NestedErrorMessage(o.body))
                    THEN NestedErrorMessage(o.body) ELSE ErrorMessage(o)]
  ELSE [kind |-> "error", status |-> FallbackStatus, data |-> Undefined,
        message |-> ErrorMessage(o)]

(* ----------------------------- tool handler --------------------------- *)
\* A line written by logger.error, logger.warn, ...  (The redaction applied to
\* every line leaves the short messages of this model as they are.)
LogLine(level, text) == [level |-> level, text |-> text]

\* The tool whose request has cache key k.
ToolOf(k) ==
  IF k = "k1" THEN "semrush_domain_overview" ELSE "semrush_keyword_overview"

NoToolResult == [isError |-> FALSE, text |-> Undefined]

\* JSON.stringify of a payload that is a string.
JsonString(d) == "\"" \o d \o "\""

\* The handler's result on success: the payload alone, serialized.
ToolSuccess(envelope) == [isError |-> FALSE, text |-> JsonString(envelope.data)]

\* An error result that leaves the status out.
handleApiErrorNoStatus(e) ==
  [isError |-> TRUE, text |-> "Error: " \o e.message]

\* handleApiError (config.ts, 561-584)
handleApiError(e) ==
  IF e.kind = "error"
  THEN [isError |-> TRUE,
        text |-> "Error: " \o e.message \o ". Status: " \o ToString(e.status)]
  ELSE [isError |-> TRUE,
        text |-> "Unexpected error: "
                   \o (IF Truthy(e.message) THEN e.message ELSE "Unknown error")]

(* ------------------------------- actions ------------------------------ *)
\* An event loop that is held while any call waits (a blocking wait).
EventLoopHeld ==
  \E c \in Callers :
    pc[c] \in {"Admitted", "CacheHit", "Succeeded", "Failed", "Admitting",
               "Requesting"}

\* Some promise continuation is queued: it runs before any timer or I/O event.
MicrotaskPending ==
  \E c \in Callers : pc[c] \in {"Admitted", "CacheHit", "Succeeded", "Failed"}

\* A limiter that rejects the caller when the window is full.
checkRateLimitRejecting(c) ==
  LET ts == FilterTimestamps(requestTimestamps, now) IN
  /\ requestTimestamps' = IF canMakeRequest(ts, rateLimit) THEN recordRequest(ts, now) ELSE ts
  /\ admitLog' = IF canMakeRequest(ts, rateLimit) THEN Append(admitLog, now) ELSE admitLog
  /\ pc' = [pc EXCEPT ![c] = IF canMakeRequest(ts, rateLimit) THEN "Admitted" ELSE "Failed"]
  /\ due' = due

\* checkRateLimit (lines 38-46), one synchronous block: prune, test, and
\* either record and resolve, or re-arm the 100 ms timer.
checkRateLimit(c) ==
  LET ts == FilterTimestamps(requestTimestamps, now) IN
  IF canMakeRequest(ts, rateLimit)
  THEN /\ requestTimestamps' = recordRequest(ts, now)
       /\ admitLog' = Append(admitLog, now)
       /\ pc' = [pc EXCEPT ![c] = "Admitted"]
       /\ due' = [due EXCEPT ![c] = 0]
  ELSE /\ requestTimestamps' = ts
       /\ admitLog' = admitLog
       /\ pc' = [pc EXCEPT ![c] = "Admitting"]
       /\ due' = [due EXCEPT ![c] = now + PollInterval]

\* A cache hit that still takes a rate-limiter slot.
ReturnCachedRecording(c, k) ==
  /\ pc' = [pc EXCEPT ![c] = "CacheHit"]
  /\ result' = [result EXCEPT ![c] = CacheGet(apiCache, k, now)]
  /\ toolResult' = [toolResult EXCEPT ![c] = ToolSuccess(CacheGet(apiCache, k, now))]
  /\ requestTimestamps' = recordRequest(FilterTimestamps(requestTimestamps, now), now)
  /\ UNCHANGED <<admitLog, due>>

\* lines 108-111: the cached envelope is returned; nothing else is touched.
\* The handler that awaited it has its result ready.
ReturnCached(c, k) ==
  /\ pc' = [pc EXCEPT ![c] = "CacheHit"]
  /\ result' = [result EXCEPT ![c] = CacheGet(apiCache, k, now)]
  /\ toolResult' = [toolResult EXCEPT ![c] = ToolSuccess(CacheGet(apiCache, k, now))]
  /\ UNCHANGED <<requestTimestamps, admitLog, due>>

\* A makeRequest that joins a request already under way for the same key
\* instead of asking the limiter for a slot of its own.
makeRequestCoalescing(c, k) ==
  /\ ~MicrotaskPending
  /\ pc[c] = "Pending"
  /\ \A d \in Callers : d < c => pc[d] # "Pending"
  /\ now <= MaxStart
  /\ cacheKey' = [cacheKey EXCEPT ![c] = k]
  /\ apiCache' = apiCache
  /\ IF CacheGet(apiCache, k, now) # NoResult
     THEN ReturnCached(c, k)
     ELSE /\ result' = [result EXCEPT ![c] = NoResult]
          /\ IF \E d \in Callers : cacheKey[d] = k /\ pc[d] = "Requesting"
             THEN /\ pc' = [pc EXCEPT ![c] = "Requesting"]
                  /\ UNCHANGED <<requestTimestamps, admitLog, due>>
             ELSE checkRateLimit(c)
          /\ UNCHANGED toolResult
  /\ UNCHANGED <<now, rateLimit, settled, logged, clientVars>>

\* makeRequest up to its first await (lines 97-114): build the key, look the
\* cache up, return the cached envelope or enter waitForRateLimit, whose
\* promise executor runs checkRateLimit at once.
makeRequest(c, k) ==
  /\ ~MicrotaskPending
  /\ pc[c] = "Pending"
  /\ \A d \in Callers : d < c => pc[d] # "Pending"
  /\ now <= MaxStart
  /\ cacheKey' = [cacheKey EXCEPT ![c] = k]
  /\ apiCache' = apiCache
  /\ IF CacheGet(apiCache, k, now) # NoResult
     THEN ReturnCached(c, k)
     ELSE /\ result' = [result EXCEPT ![c] = NoResult]
          /\ checkRateLimit(c)
          /\ UNCHANGED toolResult
  /\ UNCHANGED <<now, rateLimit, settled, logged, clientVars>>

\* The timer armed by checkRateLimit fires.
Poll(c) ==
  /\ ~MicrotaskPending
  /\ pc[c] = "Admitting"
  /\ now >= due[c]
  /\ checkRateLimit(c)
  /\ UNCHANGED <<now, rateLimit, apiCache, cacheKey, result, settled, logged,
                 toolResult, clientVars>>

\* makeRequest resumes after the await (lines 116-124) and issues the GET.
IssueRequest(c) ==
  /\ pc[c] = "Admitted"
  /\ pc' = [pc EXCEPT ![c] = "Requesting"]
  /\ UNCHANGED <<now, rateLimit, requestTimestamps, apiCache, cacheKey, due,
                 result, settled, admitLog, logged, toolResult, clientVars>>

\* logger.error in the catch block (lines 140, 145): the message only.
ErrorLine(o) ==
  LogLine("error",
          (IF o.kind \in {"response", "network"}
           THEN "API request failed: " ELSE "Unknown error: ")
            \o ApiError(o).message)

\* logger.error in the handler's catch (config.ts, 743): the message only.
HandlerErrorLine(c, o) ==
  LogLine("error",
          "Error while executing tool " \o ToolOf(cacheKey[c]) \o ": "
            \o ApiError(o).message)

\* axios resolved (lines 126-135): wrap, cache, return; the handler that
\* awaited the envelope serializes its payload (config.ts, 614-746).
RequestSucceeded(c, o) ==
  /\ pc' = [pc EXCEPT ![c] = "Succeeded"]
  /\ result' = [result EXCEPT ![c] = ApiResponse(o)]
  /\ apiCache' = CacheSet(apiCache, cacheKey[c], ApiResponse(o), now)
  /\ toolResult' = [toolResult EXCEPT ![c] = ToolSuccess(ApiResponse(o))]
  /\ UNCHANGED <<requestTimestamps, logged>>

\* A catch block that hands the slot of the failed request back.
RequestFailedReleasing(c, o) ==
  /\ pc' = [pc EXCEPT ![c] = "Failed"]
  /\ result' = [result EXCEPT ![c] = ApiError(o)]
  /\ apiCache' = apiCache
  /\ logged' = [logged EXCEPT ![c] = <<ErrorLine(o), HandlerErrorLine(c, o)>>]
  /\ toolResult' = [toolResult EXCEPT ![c] = handleApiError(ApiError(o))]
  /\ requestTimestamps' =
       IF requestTimestamps = <<>> THEN <<>>
       ELSE SubSeq(requestTimestamps, 1, Len(requestTimestamps) - 1)

\* A catch block that caches the error it throws.
RequestFailedCaching(c, o) ==
  /\ pc' = [pc EXCEPT ![c] = "Failed"]
  /\ result' = [result EXCEPT ![c] = ApiError(o)]
  /\ apiCache' = CacheSet(apiCache, cacheKey[c], ApiError(o), now)
  /\ logged' = [logged EXCEPT ![c] = <<ErrorLine(o), HandlerErrorLine(c, o)>>]
  /\ toolResult' = [toolResult EXCEPT ![c] = handleApiError(ApiError(o))]
  /\ UNCHANGED requestTimestamps

\* A catch block that sends the call back to admission.
RequestFailedRetrying(c, o) ==
  /\ pc' = [pc EXCEPT ![c] = "Admitting"]
  /\ result' = [result EXCEPT ![c] = ApiError(o)]
  /\ apiCache' = apiCache
  /\ logged' = [logged EXCEPT ![c] = <<ErrorLine(o), HandlerErrorLine(c, o)>>]
  /\ toolResult' = [toolResult EXCEPT ![c] = handleApiError(ApiError(o))]
  /\ UNCHANGED requestTimestamps

\* axios rejected or the try block threw (lines 136-147): log, throw; the
\* handler's catch logs the error and builds handleApiError(error).
RequestFailed(c, o) ==
  /\ pc' = [pc EXCEPT ![c] = "Failed"]
  /\ result' = [result EXCEPT ![c] = ApiError(o)]
  /\ apiCache' = apiCache
  /\ logged' = [logged EXCEPT ![c] = <<ErrorLine(o), HandlerErrorLine(c, o)>>]
  /\ toolResult' = [toolResult EXCEPT ![c] = handleApiError(ApiError(o))]
  /\ UNCHANGED requestTimestamps

\* The upstream call settles with outcome o.
HttpSettle(c, o) ==
  /\ ~MicrotaskPending
  /\ pc[c] = "Requesting"
  /\ IF o.kind = "response" /\ validateStatus(o.status)
     THEN RequestSucceeded(c, o)
     ELSE RequestFailed(c, o)
  /\ settled' = [settled EXCEPT ![c] = o]
  /\ UNCHANGED <<now, rateLimit, cacheKey, due, admitLog, clientVars>>

\* The handler returns its result to the caller: the call is over.
Deliver(c) ==
  /\ pc[c] \in {"CacheHit", "Succeeded", "Failed"}
  /\ pc' = [pc EXCEPT ![c] = IF pc[c] = "Failed" THEN "ErrorSurfaced" ELSE "Returned"]
  /\ toolResult' = [toolResult EXCEPT ![c] = NoToolResult]
  /\ logged' = [logged EXCEPT ![c] = <<>>]
  /\ cacheKey' = [cacheKey EXCEPT ![c] = NoKey]
  /\ result' = [result EXCEPT ![c] = NoResult]
  /\ settled' = [settled EXCEPT ![c] = NoOutcome]
  /\ UNCHANGED <<now, rateLimit, requestTimestamps, apiCache, due, admitLog,
                 clientVars>>

\* Time passes; a due timer is run at most MaxLate late.  Once no call can
\* start any more, the clock is followed only while a call waits on it.
Tick ==
  /\ ~MicrotaskPending
  /\ now + TickStep <= MaxTime
  /\ now <= MaxStart \/ \E c \in Callers : pc[c] = "Admitting"
  /\ \A c \in Callers : pc[c] = "Admitting" => now + TickStep <= due[c] + MaxLate
  /\ now' = now + TickStep
  /\ UNCHANGED <<rateLimit, requestTimestamps, apiCache, pc, cacheKey, due,
                 result, settled, admitLog, logged, toolResult, clientVars>>

(* ----------------------- requests and their keys ---------------------- *)
SEMRUSH_API_BASE_URL == "https://api.semrush.com/"
TRENDS_API_BASE_URL  == "https://api.semrush.com/analytics/ta/"

\* JavaScript values that reach an operation: strings, numbers, undefined.
Str(s)  == [t |-> "str", v |-> s]
Num(n)  == [t |-> "num", v |-> ToString(n)]
Absent  == [t |-> "undefined", v |-> ""]
\* A number that is not an integer, by its decimal notation.
Decimal(digits) == [t |-> "num", v |-> digits]

\* Truthiness of a value, as tested by `if (limit)`.
ToBoolean(x) ==
  /\ x.t # "undefined"
  /\ ~(x.t = "str" /\ x.v = "")
  /\ ~(x.t = "num" /\ x.v = "0")

\* A default parameter value (`database: string = 'us'`).
Default(x, d) == IF x.t = "undefined" THEN d ELSE x

\* A join that writes the last element first.
RECURSIVE JoinReversed(_, _)
JoinReversed(list, sep) ==
  IF list = <<>> THEN ""
  ELSE IF Len(list) = 1 THEN Head(list)
  ELSE JoinReversed(Tail(list), sep) \o sep \o Head(list)

\* keywords.join(sep)
RECURSIVE Join(_, _)
Join(list, sep) ==
  IF list = <<>> THEN ""
  ELSE IF Len(list) = 1 THEN Head(list)
  ELSE Head(list) \o sep \o Join(Tail(list), sep)

\* An object is the sequence of its <<name, value>> properties in insertion
\* order.  Assigning a property replaces its value in place or appends it.
HasParam(params, name) == \E i \in 1..Len(params) : params[i][1] = name

ParamValue(params, name) ==
  IF HasParam(params, name)
  THEN params[CHOOSE i \in 1..Len(params) : params[i][1] = name][2]
  ELSE Absent

SetParam(params, name, value) ==
  IF HasParam(params, name)
  THEN [i \in 1..Len(params) |->
          IF params[i][1] = name THEN <<name, value>> ELSE params[i]]
  ELSE Append(params, <<name, value>>)

\* A display limit that is assigned unless it is undefined.
WithLimitDefined(params, limit) ==
  IF limit.t # "undefined" THEN SetParam(params, "display_limit", limit)
  ELSE params

\* A display limit that is assigned whatever was supplied.
WithLimitAlways(params, limit) == SetParam(params, "display_limit", limit)

\* `if (limit) params.display_limit = limit;`
WithLimit(params, limit) ==
  IF ToBoolean(limit) THEN SetParam(params, "display_limit", limit) ELSE params

\* A request object that lets a parameter named key win over the credential:
\* { key: this.apiKey, ...params }.
requestParamsKeyFirst(params, key) ==
  IF HasParam(params, "key") THEN params ELSE <<<<"key", Str(key)>>>> \o params

\* makeRequest, lines 97-101: { ...params, key: this.apiKey }
requestParams(params, key) == SetParam(params, "key", Str(key))

\* JSON.stringify of an object of strings and numbers: properties whose
\* value is undefined are left out, strings are quoted, numbers are not.
JsonValue(x) == IF x.t = "num" THEN x.v ELSE "\"" \o x.v \o "\""

RECURSIVE JsonMembers(_)
JsonMembers(params) ==
  IF params = <<>> THEN ""
  ELSE LET rest == JsonMembers(Tail(params))
           name == Head(params)[1]
           x    == Head(params)[2]
       IN IF x.t = "undefined" THEN rest
          ELSE "\"" \o name \o "\":" \o JsonValue(x)
               \o (IF rest = "" THEN "" ELSE ",") \o rest

JSONStringify(params) == "{" \o JsonMembers(params) \o "}"

\* A cache key built from the URL alone.
CacheKeyUrlOnly(url, params) == url

\* makeRequest, line 104: `${url}:${JSON.stringify(requestParams)}`
CacheKey(url, params) == url \o ":" \o JSONStringify(params)

\* The query string axios sends for `params`: name=value pairs joined by &,
\* undefined values left out, numbers and strings written alike.  (Percent
\* encoding is one-to-one and is left out.)
RECURSIVE QueryString(_)
QueryString(params) ==
  IF params = <<>> THEN ""
  ELSE LET rest == QueryString(Tail(params))
           name == Head(params)[1]
           x    == Head(params)[2]
       IN IF x.t = "undefined" THEN rest
          ELSE name \o "=" \o x.v \o (IF rest = "" THEN "" ELSE "&") \o rest

\* The GET request on the wire (lines 119-124).
WireRequest(url, params) == url \o "?" \o QueryString(params)

(* ------------------------------ operations ---------------------------- *)
\* What an operation hands to makeRequest: the URL and the params object.
Request(url, params) == [url |-> url, params |-> params]

\* getKeywordOverviewSingleDb with the column list of getKeywordOverview.
getKeywordOverviewSingleDbShortColumns(keyword, database) ==
  Request(SEMRUSH_API_BASE_URL,
    <<<<"type", Str("phrase_this")>>,
      <<"phrase", keyword>>,
      <<"database", database>>,
      <<"export_columns", Str("Ph,Nq,Cp,Co,Nr,Td")>>>>)

getDomainOverview(domain, database) ==
  Request(SEMRUSH_API_BASE_URL,
    <<<<"type", Str("domain_ranks")>>,
      <<"domain", domain>>,
      <<"database", Default(database, Str("us"))>>,
      <<"export_columns", Str("Db,Dn,Rk,Or,Ot,Oc,Ad,At,Ac,Sh,Sv")>>>>)

getDomainOrganicKeywords(domain, database, limit) ==
  Request(SEMRUSH_API_BASE_URL,
    WithLimit(
    <<<<"type", Str("domain_organic")>>,
      <<"domain", domain>>,
      <<"database", Default(database, Str("us"))>>,
      <<"export_columns", Str("Ph,Po,Pp,Pd,Nq,Cp,Ur,Tr,Tc,Co,Nr,Td")>>>>,
    limit))

getDomainPaidKeywords(domain, database, limit) ==
  Request(SEMRUSH_API_BASE_URL,
    WithLimit(
    <<<<"type", Str("domain_adwords")>>,
      <<"domain", domain>>,
      <<"database", Default(database, Str("us"))>>,
      <<"export_columns", Str("Ph,Po,Pp,Pd,Ab,Nq,Cp,Tr,Tc,Co,Nr,Td")>>>>,
    limit))

getCompetitorsInOrganic(domain, database, limit) ==
  Request(SEMRUSH_API_BASE_URL,
    WithLimit(
    <<<<"type", Str("domain_organic_organic")>>,
      <<"domain", domain>>,
      <<"database", Default(database, Str("us"))>>,
      <<"export_columns", Str("Dn,Cr,Np,Or,Ot,Oc,Ad,At,Ac")>>>>,
    limit))

getBacklinks(target, limit) ==
  Request(SEMRUSH_API_BASE_URL,
    WithLimit(
    <<<<"type", Str("backlinks")>>,
      <<"target", target>>,
      <<"export_columns", Str("source_title,source_url,target_url,anchor,page_score,domain_score,external_num,internal_num,first_seen,last_seen")>>>>,
    limit))

getBacklinksDomains(target, limit) ==
  Request(SEMRUSH_API_BASE_URL,
    WithLimit(
    <<<<"type", Str("backlinks_refdomains")>>,
      <<"target", target>>,
      <<"export_columns", Str("domain,domain_score,backlinks_num,ip,country,first_seen,last_seen")>>>>,
    limit))

getKeywordOverview(keyword, database) ==
  Request(SEMRUSH_API_BASE_URL,
    <<<<"type", Str("phrase_all")>>,
      <<"phrase", keyword>>,
      <<"database", Default(database, Str("us"))>>,
      <<"export_columns", Str("Ph,Nq,Cp,Co,Nr,Td")>>>>)

getRelatedKeywords(keyword, database, limit) ==
  Request(SEMRUSH_API_BASE_URL,
    WithLimit(
    <<<<"type", Str("phrase_related")>>,
      <<"phrase", keyword>>,
      <<"database", Default(database, Str("us"))>>,
      <<"export_columns", Str("Ph,Nq,Cp,Co,Nr,Td")>>>>,
    limit))

getKeywordOverviewSingleDb(keyword, database) ==
  Request(SEMRUSH_API_BASE_URL,
    <<<<"type", Str("phrase_this")>>,
      <<"phrase", keyword>>,
      <<"database", database>>,
      <<"export_columns", Str("Ph,Nq,Cp,Co,Nr,Td,In,Kd")>>>>)

getBatchKeywordOverview(keywords, database) ==
  Request(SEMRUSH_API_BASE_URL,
    <<<<"type", Str("phrase_these")>>,
      <<"phrase", Str(Join(keywords, ";"))>>,
      <<"database", database>>,
      <<"export_columns", Str("Ph,Nq,Cp,Co,Nr,Td,In,Kd")>>>>)

getKeywordOrganicResults(keyword, database, limit) ==
  Request(SEMRUSH_API_BASE_URL,
    WithLimit(
    <<<<"type", Str("phrase_organic")>>,
      <<"phrase", keyword>>,
      <<"database", database>>,
      <<"export_columns", Str("Po,Pt,Dn,Ur,Fk,Fp,Fl")>>>>,
    limit))

getKeywordPaidResults(keyword, database, limit) ==
  Request(SEMRUSH_API_BASE_URL,
    WithLimit(
    <<<<"type", Str("phrase_adwords")>>,
      <<"phrase", keyword>>,
      <<"database", database>>,
      <<"export_columns", Str("Dn,Ur,Vu")>>>>,
    limit))

getKeywordAdsHistory(keyword, database, limit) ==
  Request(SEMRUSH_API_BASE_URL,
    WithLimit(
    <<<<"type", Str("phrase_adwords_historical")>>,
      <<"phrase", keyword>>,
      <<"database", database>>,
      <<"export_columns", Str("Dn,Dt,Po,Ur,Tt,Ds,Vu")>>>>,
    limit))

getBroadMatchKeywords(keyword, database, limit) ==
  Request(SEMRUSH_API_BASE_URL,
    WithLimit(
    <<<<"type", Str("phrase_fullsearch")>>,
      <<"phrase", keyword>>,
      <<"database", database>>,
      <<"export_columns", Str("Ph,Nq,Cp,Co,Nr,Td,Fk,In,Kd")>>>>,
    limit))

getPhraseQuestions(keyword, database, limit) ==
  Request(SEMRUSH_API_BASE_URL,
    WithLimit(
    <<<<"type", Str("phrase_questions")>>,
      <<"phrase", keyword>>,
      <<"database", database>>,
      <<"export_columns", Str("Ph,Nq,Cp,Co,Nr,Td,In,Kd")>>>>,
    limit))

getKeywordDifficulty(keywords, database) ==
  Request(SEMRUSH_API_BASE_URL,
    <<<<"type", Str("phrase_kdi")>>,
      <<"phrase", Str(Join(keywords, ";"))>>,
      <<"database", database>>,
      <<"export_columns", Str("Ph,Kd")>>>>)

getTrafficSummary(domains, country) ==
  Request(TRENDS_API_BASE_URL \o "summary",
    <<<<"domains", Str(Join(domains, ","))>>,
      <<"country", Default(country, Str("us"))>>,
      <<"date", Str("all")>>>>)

\* getTrafficSources sent to the primary endpoint.
getTrafficSourcesPrimaryEndpoint(domain, country) ==
  Request(SEMRUSH_API_BASE_URL,
    <<<<"domain", domain>>,
      <<"country", Default(country, Str("us"))>>,
      <<"date", Str("all")>>>>)

getTrafficSources(domain, country) ==
  Request(TRENDS_API_BASE_URL \o "sources",
    <<<<"domain", domain>>,
      <<"country", Default(country, Str("us"))>>,
      <<"date", Str("all")>>>>)

getApiUnitsBalance ==
  Request(SEMRUSH_API_BASE_URL, <<<<"type", Str("api_units")>>>>)

\* An invocation names the operation and its arguments; arguments the
\* operation does not take are Absent (or the empty list).
NoInvocation ==
  [op |-> "none", subject |-> Absent, list |-> <<>>, database |-> Absent,
   limit |-> Absent]

Invocation(op, subject, list, database, limit) ==
  [op |-> op, subject |-> subject, list |-> list, database |-> database,
   limit |-> limit]

\* The call semrushApi.<op>(...arguments).
OperationRequest(inv) ==
  CASE inv.op = "getDomainOverview" ->
         getDomainOverview(inv.subject, inv.database)
    [] inv.op = "getDomainOrganicKeywords" ->
         getDomainOrganicKeywords(inv.subject, inv.database, inv.limit)
    [] inv.op = "getDomainPaidKeywords" ->
         getDomainPaidKeywords(inv.subject, inv.database, inv.limit)
    [] inv.op = "getCompetitorsInOrganic" ->
         getCompetitorsInOrganic(inv.subject, inv.database, inv.limit)
    [] inv.op = "getBacklinks" ->
         getBacklinks(inv.subject, inv.limit)
    [] inv.op = "getBacklinksDomains" ->
         getBacklinksDomains(inv.subject, inv.limit)
    [] inv.op = "getKeywordOverview" ->
         getKeywordOverview(inv.subject, inv.database)
    [] inv.op = "getRelatedKeywords" ->
         getRelatedKeywords(inv.subject, inv.database, inv.limit)
    [] inv.op = "getKeywordOverviewSingleDb" ->
         getKeywordOverviewSingleDb(inv.subject, inv.database)
    [] inv.op = "getBatchKeywordOverview" ->
         getBatchKeywordOverview(inv.list, inv.database)
    [] inv.op = "getKeywordOrganicResults" ->
         getKeywordOrganicResults(inv.subject, inv.database, inv.limit)
    [] inv.op = "getKeywordPaidResults" ->
         getKeywordPaidResults(inv.subject, inv.database, inv.limit)
    [] inv.op = "getKeywordAdsHistory" ->
         getKeywordAdsHistory(inv.subject, inv.database, inv.limit)
    [] inv.op = "getBroadMatchKeywords" ->
         getBroadMatchKeywords(inv.subject, inv.database, inv.limit)
    [] inv.op = "getPhraseQuestions" ->
         getPhraseQuestions(inv.subject, inv.database, inv.limit)
    [] inv.op = "getKeywordDifficulty" ->
         getKeywordDifficulty(inv.list, inv.database)
    [] inv.op = "getTrafficSummary" ->
         getTrafficSummary(inv.list, inv.database)
    [] inv.op = "getTrafficSources" ->
         getTrafficSources(inv.subject, inv.database)
    [] inv.op = "getApiUnitsBalance" ->
         getApiUnitsBalance

\* Arguments explored.
Subjects     == {Str("seo"), Str("example.com")}
SubjectLists == {<<"seo">>, <<"seo", "example.com">>, <<"a", "b", "c">>}
Databases    == {Str("us"), Str("uk")}
Limits       == {Absent, Num(0), Num(5), Num(-3), Decimal("2.5")}

DefaultDbOps      == {"getDomainOverview", "getKeywordOverview"}
DefaultDbLimitOps == {"getDomainOrganicKeywords", "getDomainPaidKeywords",
                      "getCompetitorsInOrganic", "getRelatedKeywords"}
TargetOps         == {"getBacklinks", "getBacklinksDomains"}
SingleDbOps       == {"getKeywordOverviewSingleDb"}
ListOps           == {"getBatchKeywordOverview", "getKeywordDifficulty"}
DbLimitOps        == {"getKeywordOrganicResults", "getKeywordPaidResults",
                      "getKeywordAdsHistory", "getBroadMatchKeywords",
                      "getPhraseQuestions"}
PrimaryOps == DefaultDbOps \cup DefaultDbLimitOps \cup TargetOps \cup SingleDbOps
                \cup ListOps \cup DbLimitOps \cup {"getApiUnitsBalance"}

Invocations ==
  {Invocation(op, s, <<>>, d, Absent) :
     op \in DefaultDbOps, s \in Subjects, d \in Databases \cup {Absent}}
  \cup {Invocation(op, s, <<>>, d, l) :
     op \in DefaultDbLimitOps, s \in Subjects, d \in Databases \cup {Absent},
     l \in Limits}
  \cup {Invocation(op, s, <<>>, Absent, l) :
     op \in TargetOps, s \in Subjects, l \in Limits}
  \cup {Invocation(op, s, <<>>, d, Absent) :
     op \in SingleDbOps, s \in Subjects, d \in Databases}
  \cup {Invocation(op, Absent, ss, d, Absent) :
     op \in ListOps, ss \in SubjectLists, d \in Databases}
  \cup {Invocation(op, s, <<>>, d, l) :
     op \in DbLimitOps, s \in Subjects, d \in Databases, l \in Limits}
  \cup {Invocation("getTrafficSummary", Absent, ss, d, Absent) :
     ss \in SubjectLists, d \in Databases \cup {Absent}}
  \cup {Invocation("getTrafficSources", s, <<>>, d, Absent) :
     s \in Subjects, d \in Databases \cup {Absent}}
  \cup {Invocation("getApiUnitsBalance", Absent, <<>>, Absent, Absent)}

(* ------------------------------ tool calls ---------------------------- *)
\* The arguments of a tools/call request, by role: the subject (domain,
\* target or keyword), the list (keywords or domains), the database or
\* country code, the limit and the check flag.  A property the request does
\* not have is Absent (the list: empty).
Bool(b) == [t |-> "bool", v |-> IF b THEN "true" ELSE "false"]

ToolCall(name, subject, list, database, limit, check) ==
  [name |-> name, subject |-> subject, list |-> list, database |-> database,
   limit |-> limit, check |-> check]

NoToolCall == ToolCall("none", Absent, <<>>, Absent, Absent, Absent)

NoArgs == [subject |-> Absent, list |-> <<>>, database |-> Absent,
           limit |-> Absent, check |-> Absent]

\* The outcome of schema.parse(args): the parsed object, or the ZodError
\* thrown (its message, a listing of the issues, is cut down to the first
\* property at fault).
Parsed(value) == [ok |-> TRUE, value |-> value, message |-> ""]
ZodError(property) ==
  [ok |-> FALSE, value |-> NoArgs, message |-> "invalid_type: " \o property]

\* z.string()
IsString(x) == x.t = "str"
\* z.number().optional()
IsOptionalNumber(x) == x.t \in {"num", "undefined"}
\* z.string().optional()
IsOptionalString(x) == x.t \in {"str", "undefined"}
\* z.boolean()
IsBoolean(x) == x.t = "bool"

\* KeywordParams with database declared z.string().optional(), without the
\* default.
KeywordParamsNoDefault(args) ==
  IF ~IsString(args.subject) THEN ZodError("keyword")
  ELSE IF ~IsOptionalString(args.database) THEN ZodError("database")
  ELSE IF ~IsOptionalNumber(args.limit) THEN ZodError("limit")
  ELSE Parsed([NoArgs EXCEPT !.subject = args.subject,
                             !.database = args.database,
                             !.limit = args.limit])

\* The zod schemas (config.ts, 523-559).
DomainParams(args) ==
  IF ~IsString(args.subject) THEN ZodError("domain")
  ELSE IF ~IsOptionalString(args.database) THEN ZodError("database")
  ELSE IF ~IsOptionalNumber(args.limit) THEN ZodError("limit")
  ELSE Parsed([NoArgs EXCEPT !.subject = args.subject,
                             !.database = Default(args.database, Str("us")),
                             !.limit = args.limit])

TargetParams(args) ==
  IF ~IsString(args.subject) THEN ZodError("target")
  ELSE IF ~IsOptionalNumber(args.limit) THEN ZodError("limit")
  ELSE Parsed([NoArgs EXCEPT !.subject = args.subject, !.limit = args.limit])

KeywordParams(args) ==
  IF ~IsString(args.subject) THEN ZodError("keyword")
  ELSE IF ~IsOptionalString(args.database) THEN ZodError("database")
  ELSE IF ~IsOptionalNumber(args.limit) THEN ZodError("limit")
  ELSE Parsed([NoArgs EXCEPT !.subject = args.subject,
                             !.database = Default(args.database, Str("us")),
                             !.limit = args.limit])

TrafficDomainsParams(args) ==
  IF args.list = <<>> THEN ZodError("domains")
  ELSE IF ~IsOptionalString(args.database) THEN ZodError("country")
  ELSE Parsed([NoArgs EXCEPT !.list = args.list,
                             !.database = Default(args.database, Str("us"))])

TrafficDomainParams(args) ==
  IF ~IsString(args.subject) THEN ZodError("domain")
  ELSE IF ~IsOptionalString(args.database) THEN ZodError("country")
  ELSE Parsed([NoArgs EXCEPT !.subject = args.subject,
                             !.database = Default(args.database, Str("us"))])

CheckParams(args) ==
  IF ~IsBoolean(args.check) THEN ZodError("check")
  ELSE Parsed([NoArgs EXCEPT !.check = args.check])

BatchKeywordParams(args) ==
  IF args.list = <<>> THEN ZodError("keywords")
  ELSE IF ~IsOptionalString(args.database) THEN ZodError("database")
  ELSE Parsed([NoArgs EXCEPT !.list = args.list,
                             !.database = Default(args.database, Str("us"))])

\* The cases of the handler's switch (config.ts, 622-734), by the schema
\* that parses the arguments.
DomainTools == {"semrush_domain_overview", "semrush_domain_organic_keywords",
                "semrush_domain_paid_keywords", "semrush_competitors"}
TargetTools == {"semrush_backlinks", "semrush_backlinks_domains"}
KeywordTools == {"semrush_keyword_overview", "semrush_related_keywords",
                 "semrush_keyword_overview_single_db",
                 "semrush_keyword_organic_results",
                 "semrush_keyword_paid_results", "semrush_keyword_ads_history",
                 "semrush_broad_match_keywords", "semrush_phrase_questions"}
BatchTools == {"semrush_batch_keyword_overview", "semrush_keyword_difficulty"}
ToolNames ==
  DomainTools \cup TargetTools \cup KeywordTools \cup BatchTools
    \cup {"semrush_traffic_summary", "semrush_traffic_sources",
          "semrush_api_units_balance"}

\* <Schema>.parse(args) of the case that handles the tool.
ParseArgs(name, args) ==
  CASE name \in DomainTools -> DomainParams(args)
    [] name \in TargetTools -> TargetParams(args)
    [] name \in KeywordTools -> KeywordParams(args)
    [] name \in BatchTools -> BatchKeywordParams(args)
    [] name = "semrush_traffic_summary" -> TrafficDomainsParams(args)
    [] name = "semrush_traffic_sources" -> TrafficDomainParams(args)
    [] name = "semrush_api_units_balance" -> CheckParams(args)

\* The client operation the case calls.
ToolOperation(name) ==
  CASE name = "semrush_domain_overview" -> "getDomainOverview"
    [] name = "semrush_domain_organic_keywords" -> "getDomainOrganicKeywords"
    [] name = "semrush_domain_paid_keywords" -> "getDomainPaidKeywords"
    [] name = "semrush_competitors" -> "getCompetitorsInOrganic"
    [] name = "semrush_backlinks" -> "getBacklinks"
    [] name = "semrush_backlinks_domains" -> "getBacklinksDomains"
    [] name = "semrush_keyword_overview" -> "getKeywordOverview"
    [] name = "semrush_related_keywords" -> "getRelatedKeywords"
    [] name = "semrush_keyword_overview_single_db" -> "getKeywordOverviewSingleDb"
    [] name = "semrush_batch_keyword_overview" -> "getBatchKeywordOverview"
    [] name = "semrush_keyword_organic_results" -> "getKeywordOrganicResults"
    [] name = "semrush_keyword_paid_results" -> "getKeywordPaidResults"
    [] name = "semrush_keyword_ads_history" -> "getKeywordAdsHistory"
    [] name = "semrush_broad_match_keywords" -> "getBroadMatchKeywords"
    [] name = "semrush_phrase_questions" -> "getPhraseQuestions"
    [] name = "semrush_keyword_difficulty" -> "getKeywordDifficulty"
    [] name = "semrush_traffic_summary" -> "getTrafficSummary"
    [] name = "semrush_traffic_sources" -> "getTrafficSources"
    [] name = "semrush_api_units_balance" -> "getApiUnitsBalance"

\* The arguments the case hands to the operation: those it destructures
\* from the parsed object.
ToolInvocation(name, v) ==
  LET op == ToolOperation(name) IN
    IF op \in DefaultDbOps \cup SingleDbOps \cup {"getTrafficSources"}
    THEN Invocation(op, v.subject, <<>>, v.database, Absent)
    ELSE IF op \in DefaultDbLimitOps \cup DbLimitOps
    THEN Invocation(op, v.subject, <<>>, v.database, v.limit)
    ELSE IF op \in TargetOps
    THEN Invocation(op, v.subject, <<>>, Absent, v.limit)
    ELSE IF op \in ListOps \cup {"getTrafficSummary"}
    THEN Invocation(op, Absent, v.list, v.database, Absent)
    ELSE Invocation(op, Absent, <<>>, Absent, Absent)

\* What the handler returns without calling an operation, if it does: the
\* default case's result for a name that is no tool, handleApiError's for
\* arguments the schema rejects (config.ts, 736-745).
Rejected(call) ==
  call.name \notin ToolNames \/ ~ParseArgs(call.name, call).ok

Rejection(call) ==
  IF call.name \notin ToolNames
  THEN [isError |-> TRUE, text |-> "Unknown tool: " \o call.name]
  ELSE handleApiError([kind |-> "zod",
                       message |-> ParseArgs(call.name, call).message])

\* Tool calls explored.
CallSubjects  == {Absent, Str("seo"), Num(7)}
CallCodes     == {Absent, Str("uk"), Num(7)}
CallLimits    == {Absent, Num(0), Num(5), Decimal("2.5"), Str("5")}
CallLists     == {<<>>, <<"seo", "example.com">>}
CallChecks    == {Absent, Bool(TRUE), Str("yes")}

ToolCalls ==
  {ToolCall(n, s, <<>>, d, l, Absent) :
     n \in DomainTools \cup KeywordTools, s \in CallSubjects, d \in CallCodes,
     l \in CallLimits}
  \cup {ToolCall(n, s, <<>>, Absent, l, Absent) :
     n \in TargetTools, s \in CallSubjects, l \in CallLimits}
  \cup {ToolCall(n, Absent, ss, d, Absent, Absent) :
     n \in BatchTools \cup {"semrush_traffic_summary"}, ss \in CallLists,
     d \in CallCodes}
  \cup {ToolCall("semrush_traffic_sources", s, <<>>, d, Absent, Absent) :
     s \in CallSubjects, d \in CallCodes}
  \cup {ToolCall("semrush_api_units_balance", Absent, <<>>, Absent, Absent, k) :
     k \in CallChecks}
  \cup {ToolCall("semrush_nonexistent", s, <<>>, Absent, Absent, Absent) :
     s \in CallSubjects}

(* ------------------------------- client ------------------------------- *)
\* Values of the environment variable SEMRUSH_API_KEY explored.
EnvApiKeys == {Undefined, "", "keyA", "keyB"}

NoRequest == Request("", <<>>)

\* A constructor that accepts any key.
constructorUnchecked ==
  /\ client = "unconstructed"
  /\ client' = "ready"
  /\ UNCHANGED <<apiKey, invocation, request, handlerVars, serverVars, pipeVars>>

\* new SemrushApiClient() at module load (lines 84-89, 397): throws when the
\* key is undefined or empty.
constructor ==
  /\ client = "unconstructed"
  /\ client' = IF Truthy(apiKey) THEN "ready" ELSE "failed"
  /\ UNCHANGED <<apiKey, invocation, request, handlerVars, serverVars, pipeVars>>

\* An operation of the constructed client is called and makeRequest builds
\* the request for it (lines 97-104).
callOperation(inv) ==
  /\ client = "ready"
  /\ invocation' = inv
  /\ request' = Request(OperationRequest(inv).url,
                        requestParams(OperationRequest(inv).params, apiKey))
  /\ toolCall' = NoToolCall
  /\ toolReply' = NoToolResult
  /\ UNCHANGED <<apiKey, client, serverVars, pipeVars>>

\* The tools/call handler (config.ts, 614-746) up to the request built by
\* the operation it calls: the arguments are parsed by the tool's schema and
\* handed to the operation, or the handler returns an error result at once.
callTool(call) ==
  /\ client = "ready"
  /\ toolCall' = call
  /\ IF Rejected(call)
     THEN /\ toolReply' = Rejection(call)
          /\ invocation' = NoInvocation
          /\ request' = NoRequest
     ELSE LET inv == ToolInvocation(call.name, ParseArgs(call.name, call).value)
          IN /\ toolReply' = NoToolResult
             /\ invocation' = inv
             /\ request' = Request(OperationRequest(inv).url,
                                   requestParams(OperationRequest(inv).params, apiKey))
  /\ UNCHANGED <<apiKey, client, serverVars, pipeVars>>

(* ----------------------- tool calls in the pipeline -------------------- *)
\* Tool calls followed through the pipeline: one accepted call for each
\* cache key of Keys, and calls the handler turns down.
PipelineCalls ==
  {ToolCall("semrush_domain_overview", Str("example.com"), <<>>, Absent,
            Absent, Absent),
   ToolCall("semrush_keyword_overview", Str("seo"), <<>>, Absent, Absent,
            Absent),
   ToolCall("semrush_keyword_overview", Absent, <<>>, Absent, Absent, Absent),
   ToolCall("semrush_domain_overview", Str("example.com"), <<>>, Absent,
            Str("5"), Absent),
   ToolCall("semrush_nonexistent", Str("seo"), <<>>, Absent, Absent, Absent)}

\* The cache key of the request an accepted call of PipelineCalls builds.
KeyOfCall(call) ==
  IF call.name = "semrush_domain_overview" THEN "k1" ELSE "k2"

\* logger.error in the handler's catch (config.ts, 743) for a ZodError; the
\* default case logs nothing.
RejectionLines(call) ==
  IF call.name \notin ToolNames THEN <<>>
  ELSE <<LogLine("error",
                 "Error while executing tool " \o call.name \o ": "
                   \o ParseArgs(call.name, call).message)>>

\* A handler that asks the limiter for a slot before it looks at the call.
handleToolCallAdmitting(c, call) ==
  /\ ~MicrotaskPending
  /\ pc[c] = "Pending"
  /\ \A d \in Callers : d < c => pc[d] # "Pending"
  /\ now <= MaxStart
  /\ IF Rejected(call)
     THEN /\ pc' = [pc EXCEPT ![c] = "Rejected"]
          /\ toolResult' = [toolResult EXCEPT ![c] = Rejection(call)]
          /\ logged' = [logged EXCEPT ![c] = RejectionLines(call)]
          /\ requestTimestamps' =
               recordRequest(FilterTimestamps(requestTimestamps, now), now)
          /\ UNCHANGED <<now, rateLimit, apiCache, cacheKey, due,
                         result, settled, admitLog, clientVars>>
     ELSE makeRequest(c, KeyOfCall(call))

\* The tools/call handler (config.ts, 614-746) for caller c: a call it turns
\* down (default case, or parse throwing into the catch block) ends at once
\* with the error result; an accepted call enters makeRequest through its
\* operation.
handleToolCall(c, call) ==
  /\ ~MicrotaskPending
  /\ pc[c] = "Pending"
  /\ \A d \in Callers : d < c => pc[d] # "Pending"
  /\ now <= MaxStart
  /\ IF Rejected(call)
     THEN /\ pc' = [pc EXCEPT ![c] = "Rejected"]
          /\ toolResult' = [toolResult EXCEPT ![c] = Rejection(call)]
          /\ logged' = [logged EXCEPT ![c] = RejectionLines(call)]
          /\ UNCHANGED <<now, rateLimit, requestTimestamps, apiCache, cacheKey,
                         due, result, settled, admitLog, clientVars>>
     ELSE makeRequest(c, KeyOfCall(call))

(* ------------------------------ HTTP server --------------------------- *)
\* Session ids: the n-th id randomUUID() produces.
SessionId(n) == "s" \o ToString(n)

\* Names every object inherits from Object.prototype.
ObjectPrototypeNames == {"constructor", "toString", "hasOwnProperty"}

\* Values of the mcp-session-id header explored: none, empty, the ids the
\* server can issue, an id it never issues, and an inherited name.
HeaderIds ==
  {Undefined, "", "unknown", "constructor"}
    \cup {SessionId(n) : n \in 1..MaxSessions}

\* Request bodies: an initialize request, or another JSON-RPC message.
RequestBodies == {"initialize", "tools/call"}

\* isInitializeRequest(req.body)
isInitializeRequest(body) == body = "initialize"

\* A lookup that sees the registered transports only.
LookupOwn(registry, id) ==
  IF id \in registry THEN "transport" ELSE "undefined"

\* transports.streamable[sessionId] on the object literal of line 759: the
\* transport registered under the id, else what the object inherits under
\* that name, else undefined.
Lookup(registry, id) ==
  IF id \in registry THEN "transport"
  ELSE IF id \in ObjectPrototypeNames THEN "inherited"
  ELSE "undefined"

\* A request: method, path, the session id it names (the mcp-session-id
\* header on /mcp, the sessionId query parameter on /messages), its body,
\* and the ids registered in the map of its route when it arrived.
HttpRequest(method, path, id, body) ==
  [method |-> method, path |-> path, id |-> id, body |-> body,
   sessions |-> IF path = "/mcp" THEN transports ELSE sseTransports]

NoHttpRequest ==
  [method |-> "none", path |-> "none", id |-> Undefined, body |-> "none",
   sessions |-> {}]

\* The server instances: the module's Server, on which the handlers of
\* tools/list and tools/call are registered (config.ts, 586-616), and the
\* McpServer made for each new streamable transport (lines 788-791), on
\* which nothing is registered.
SemrushServer == "semrush-mcp-server"
ExampleServer == "example-server"

\* The tools a server instance lists and can be asked to call.
ToolsOn(instance) == IF instance = SemrushServer THEN ToolNames ELSE {}

\* A response: its status ("none": no response is sent) and what handled
\* the request ("existing" or "new" transport, or the route itself).
HttpResponse(status, handler) == [status |-> status, handler |-> handler]

NoHttpResponse == HttpResponse("none", "none")

\* transport.handleRequest called on a value that is no transport throws a
\* TypeError inside the async route: Express answers 500 or, without
\* support for rejected handlers, nothing.
TypeErrorResponses == {HttpResponse("500", "route"), HttpResponse("none", "route")}

\* app.post('/mcp') (config.ts, 763-812).  The transport's own handling is
\* the SDK's: a new transport answers initialize, draws its id and reports
\* it through onsessioninitialized; an initialized one turns a second
\* initialize down with 400 and accepts other messages.
postMcp(id, body) ==
  /\ client = "ready"
  /\ httpRequest' = HttpRequest("POST", "/mcp", id, body)
  /\ IF Truthy(id) /\ Lookup(transports, id) # "undefined"
     THEN IF Lookup(transports, id) = "transport"
          THEN /\ httpResponse' =
                    HttpResponse(IF isInitializeRequest(body) THEN "400" ELSE "200",
                                 "existing")
               /\ UNCHANGED <<transports, issued, connection>>
          ELSE /\ httpResponse' \in TypeErrorResponses
               /\ UNCHANGED <<transports, issued, connection>>
     ELSE IF ~Truthy(id) /\ isInitializeRequest(body)
     THEN /\ issued < MaxSessions
          /\ issued' = issued + 1
          /\ transports' = transports \cup {SessionId(issued + 1)}
          /\ connection' = connection \cup {<<SessionId(issued + 1), ExampleServer>>}
          /\ httpResponse' = HttpResponse("200", "new")
     ELSE /\ httpResponse' = HttpResponse("400", "route")
          /\ UNCHANGED <<transports, issued, connection>>
  /\ UNCHANGED <<sseTransports, closed, apiKey, client, invocation, request,
                 handlerVars, pipeVars>>

\* handleSessionRequest (config.ts, 815-824) for GET and DELETE.  The
\* transport opens the event stream on GET; on DELETE it closes, and its
\* onclose handler (lines 783-787) removes it from the registry.
handleSessionRequest(method, id) ==
  /\ client = "ready"
  /\ httpRequest' = HttpRequest(method, "/mcp", id, "none")
  /\ IF ~Truthy(id) \/ Lookup(transports, id) = "undefined"
     THEN /\ httpResponse' = HttpResponse("400", "route")
          /\ UNCHANGED <<transports, closed, connection>>
     ELSE IF Lookup(transports, id) = "transport"
     THEN /\ httpResponse' = HttpResponse("200", "existing")
          /\ IF method = "DELETE"
             THEN /\ transports' = transports \ {id}
                  /\ closed' = closed \cup {id}
                  /\ connection' = {x \in connection : x[1] # id}
             ELSE UNCHANGED <<transports, closed, connection>>
     ELSE /\ httpResponse' \in TypeErrorResponses
          /\ UNCHANGED <<transports, closed, connection>>
  /\ UNCHANGED <<sseTransports, issued, apiKey, client, invocation, request,
                 handlerVars, pipeVars>>

\* app.get('/mcp', handleSessionRequest), app.delete('/mcp', ...)
getMcp(id) == handleSessionRequest("GET", id)
deleteMcp(id) == handleSessionRequest("DELETE", id)

\* app.get('/sse') (config.ts, 833-843): a transport is made, registered
\* under the id it drew, and the module's Server is connected to it; the
\* response stays open as the event stream.
getSse ==
  /\ client = "ready"
  /\ issued < MaxSessions
  /\ issued' = issued + 1
  /\ sseTransports' = sseTransports \cup {SessionId(issued + 1)}
  /\ connection' = connection \cup {<<SessionId(issued + 1), SemrushServer>>}
  /\ httpRequest' = HttpRequest("GET", "/sse", Undefined, "none")
  /\ httpResponse' = HttpResponse("200", "new")
  /\ UNCHANGED <<transports, closed, apiKey, client, invocation, request,
                 handlerVars, pipeVars>>

\* A close handler that leaves the transport in the map.
closeSseKeeping(id) ==
  /\ id \in sseTransports
  /\ closed' = closed \cup {id}
  /\ UNCHANGED <<sseTransports, connection, transports, issued, httpRequest,
                 httpResponse, apiKey, client, invocation, request,
                 handlerVars, pipeVars>>

\* res.on("close") of an event stream (lines 838-840): the connection of
\* session id has ended and its transport is taken out of the map.
closeSse(id) ==
  /\ id \in sseTransports
  /\ sseTransports' = sseTransports \ {id}
  /\ closed' = closed \cup {id}
  /\ connection' = {x \in connection : x[1] # id}
  /\ UNCHANGED <<transports, issued, httpRequest, httpResponse, apiKey, client,
                 invocation, request, handlerVars, pipeVars>>

\* app.post('/messages') (lines 846-854): the message goes to the transport
\* registered under the sessionId of the query, which accepts it (202).
postMessages(id, body) ==
  /\ client = "ready"
  /\ httpRequest' = HttpRequest("POST", "/messages", id, body)
  /\ httpResponse' \in
       IF Lookup(sseTransports, id) = "transport"
       THEN {HttpResponse("202", "existing")}
       ELSE IF Lookup(sseTransports, id) = "inherited"
       THEN TypeErrorResponses
       ELSE {HttpResponse("400", "route")}
  /\ UNCHANGED <<transports, sseTransports, closed, connection, issued, apiKey,
                 client, invocation, request, handlerVars, pipeVars>>

(* --------------------------- specifications --------------------------- *)
InitPipeline(limits) ==
  /\ now = 0
  /\ rateLimit \in limits
  /\ requestTimestamps = <<>>
  /\ apiCache = [k \in Keys |-> NoEntry]
  /\ pc = [c \in Callers |-> "Pending"]
  /\ cacheKey = [c \in Callers |-> NoKey]
  /\ due = [c \in Callers |-> 0]
  /\ result = [c \in Callers |-> NoResult]
  /\ settled = [c \in Callers |-> NoOutcome]
  /\ admitLog = <<>>
  /\ logged = [c \in Callers |-> <<>>]
  /\ toolResult = [c \in Callers |-> NoToolResult]

\* The process after semrushApi was constructed with a key.
InitWith(limits) ==
  /\ InitPipeline(limits)
  /\ apiKey = "keyA"
  /\ client = "ready"
  /\ invocation = NoInvocation
  /\ request = NoRequest
  /\ toolCall = NoToolCall
  /\ toolReply = NoToolResult
  /\ transports = {}
  /\ sseTransports = {}
  /\ closed = {}
  /\ connection = {}
  /\ issued = 0
  /\ httpRequest = NoHttpRequest
  /\ httpResponse = NoHttpResponse

\* Every limit the configuration can produce.
ConfiguredLimits == {ConfigRateLimit(e) : e \in EnvRateLimits}

\* The process configured with a limit of at least one request per second.
Init == InitWith({ConfigRateLimit(e) : e \in {"1", "2"}})

\* The process configured with whatever the environment says.
InitEnv == InitWith(ConfiguredLimits)

Next ==
  \/ \E c \in Callers, k \in Keys : makeRequest(c, k)
  \/ \E c \in Callers : Poll(c)
  \/ \E c \in Callers : IssueRequest(c)
  \/ \E c \in Callers, o \in CoreOutcomes : HttpSettle(c, o)
  \/ \E c \in Callers : Deliver(c)
  \/ Tick

Spec == Init /\ [][Next]_vars

\* Behaviours of at most ErrorCalls calls whose requests settle in every way
\* of Outcomes.
NextErrors ==
  \/ \E c \in 1..ErrorCalls, k \in Keys : makeRequest(c, k)
  \/ \E c \in Callers : Poll(c)
  \/ \E c \in Callers : IssueRequest(c)
  \/ \E c \in Callers, o \in Outcomes : HttpSettle(c, o)
  \/ \E c \in Callers : Deliver(c)
  \/ Tick

SpecErrors == Init /\ [][NextErrors]_vars

SpecEnv == InitEnv /\ [][Next]_vars

\* Behaviours of at most ErrorCalls tool calls, accepted or turned down.
NextTools ==
  \/ \E c \in 1..ErrorCalls, call \in PipelineCalls : handleToolCall(c, call)
  \/ \E c \in Callers : Poll(c)
  \/ \E c \in Callers : IssueRequest(c)
  \/ \E c \in Callers, o \in CoreOutcomes : HttpSettle(c, o)
  \/ \E c \in Callers : Deliver(c)
  \/ Tick

SpecTools == Init /\ [][NextTools]_vars

\* The HTTP server's routes, from app.listen on.
NextServer ==
  \/ \E id \in HeaderIds, body \in RequestBodies : postMcp(id, body)
  \/ \E id \in HeaderIds : getMcp(id)
  \/ \E id \in HeaderIds : deleteMcp(id)
  \/ getSse
  \/ \E id \in HeaderIds : closeSse(id)
  \/ \E id \in HeaderIds, body \in RequestBodies : postMessages(id, body)

SpecServer == Init /\ [][NextServer]_vars

\* The process from module load on, with whatever key the environment holds:
\* the client is constructed and its operations build their requests.
InitClient ==
  /\ InitPipeline({ConfigRateLimit("")})
  /\ apiKey \in EnvApiKeys
  /\ client = "unconstructed"
  /\ invocation = NoInvocation
  /\ request = NoRequest
  /\ toolCall = NoToolCall
  /\ toolReply = NoToolResult
  /\ transports = {}
  /\ sseTransports = {}
  /\ closed = {}
  /\ connection = {}
  /\ issued = 0
  /\ httpRequest = NoHttpRequest
  /\ httpResponse = NoHttpResponse

NextClient ==
  \/ constructor
  \/ \E inv \in Invocations : callOperation(inv)
  \/ \E call \in ToolCalls : callTool(call)

SpecClient == InitClient /\ [][NextClient]_vars

\* The event loop runs due timers and queued continuations, and time passes.
Fairness ==
  /\ WF_vars(Tick)
  /\ \A c \in Callers : WF_vars(Poll(c))
  /\ \A c \in Callers : WF_vars(IssueRequest(c))
  /\ \A c \in Callers : WF_vars(Deliver(c))

LiveSpec == Init /\ [][Next]_vars /\ Fairness

TypeOK ==
  /\ now \in 0..MaxTime
  /\ rateLimit \in Int
  /\ \A c \in Callers : cacheKey[c] \in Keys \cup {NoKey}
  /\ \A c \in Callers : result[c].kind \in {"none", "envelope", "error"}
  /\ \A c \in Callers : settled[c] \in Outcomes \cup {NoOutcome}
  /\ \A c \in Callers : toolResult[c].isError \in BOOLEAN
  /\ \A c \in Callers : Len(logged[c]) <= 2
  /\ apiKey \in EnvApiKeys
  /\ client \in {"unconstructed", "ready", "failed"}
  /\ invocation \in Invocations \cup {NoInvocation}
  /\ toolCall \in ToolCalls \cup {NoToolCall}
  /\ toolReply.isError \in BOOLEAN
  /\ transports \subseteq {SessionId(n) : n \in 1..issued}
  /\ sseTransports \subseteq {SessionId(n) : n \in 1..issued}
  /\ closed \subseteq {SessionId(n) : n \in 1..issued}
  /\ connection \subseteq
       {SessionId(n) : n \in 1..issued} \X {SemrushServer, ExampleServer}
  /\ issued \in 0..MaxSessions
  /\ httpRequest.id \in HeaderIds
  /\ httpResponse.status \in {"none", "200", "202", "400", "500"}

(* ------------------------------- claims ------------------------------- *)
\* Number of timestamps of ts that are less than one second old at instant t.
RecentCount(ts, t) == Cardinality({i \in DOMAIN ts : ts[i] > t - Window})

\* Number of admissions granted in the window [t, t + 1000).
AdmittedIn(t) ==
  Cardinality({j \in DOMAIN admitLog : admitLog[j] >= t /\ admitLog[j] < t + Window})

\* The caller has just been denied: its timer was armed at this very instant.
JustDenied(c) == pc[c] = "Admitting" /\ due[c] = now + PollInterval

\* C1: in every window of 1000 ms the number of admissions granted by
\* waitForRateLimit is at most the configured limit.  (Every window holding
\* an admission is covered by the window that starts at its first admission.)
C1_RateLimitBound ==
  \A i \in DOMAIN admitLog : AdmittedIn(admitLog[i]) <= rateLimit

\* C1 witness: more calls were admitted than the limit allows in one window,
\* and some window is filled to the limit.
C1_Witness ==
  /\ Len(admitLog) > rateLimit
  /\ \E i \in DOMAIN admitLog : AdmittedIn(admitLog[i]) = rateLimit

\* C2: after an admission decision (grant or deny) the timestamp sequence
\* holds no more than rateLimit timestamps less than one second old.
C2_TimestampInvariant == RecentCount(requestTimestamps, now) <= rateLimit

\* C2 witness: a caller has just been denied and the sequence holds exactly
\* rateLimit timestamps less than one second old.
C2_Witness ==
  \E c \in Callers : JustDenied(c) /\ RecentCount(requestTimestamps, now) = rateLimit

\* C3: admission is one indivisible check-and-record: a step grants at most
\* one caller, a grant finds fewer than rateLimit recent timestamps and
\* leaves its own timestamp recorded in the same step, and no step other
\* than an admission attempt changes the timestamp sequence.
C3_AtomicAdmission ==
  [][ /\ Cardinality({c \in Callers : pc[c] # "Admitted" /\ pc'[c] = "Admitted"}) <= 1
      /\ \A c \in Callers :
           (pc[c] # "Admitted" /\ pc'[c] = "Admitted") =>
             /\ pc[c] \in {"Pending", "Admitting"}
             /\ RecentCount(requestTimestamps, now) < rateLimit
             /\ Len(requestTimestamps') = RecentCount(requestTimestamps, now) + 1
             /\ requestTimestamps'[Len(requestTimestamps')] = now
             /\ RecentCount(requestTimestamps', now) <= rateLimit
      /\ requestTimestamps' # requestTimestamps =>
           \E c \in Callers :
             /\ pc[c] \in {"Pending", "Admitting"}
             /\ pc'[c] \in {"Admitted", "Admitting"}
             /\ \A d \in Callers \ {c} : pc'[d] = pc[d]
    ]_vars

\* C3 witness: the last free slot has just been granted to one caller while
\* another caller is waiting for a slot.
C3_Witness ==
  \E c, d \in Callers :
    /\ pc[c] = "Admitted"
    /\ pc[d] = "Admitting"
    /\ RecentCount(requestTimestamps, now) = rateLimit

\* C4: with a limit of at least 1, a call that finds the window full is
\* delayed, not rejected: a call that misses the cache is admitted or
\* suspended, a suspended call leaves the wait only by being admitted (never
\* with an error), and every suspended call is eventually admitted.
C4_DelayedNotRejected ==
  /\ \A c \in Callers :
       (rateLimit >= 1 /\ pc[c] = "Admitting") ~> (pc[c] = "Admitted")
  /\ [][\A c \in Callers :
          /\ pc[c] = "Admitting" => pc'[c] \in {"Admitting", "Admitted"}
          /\ (pc[c] = "Pending" /\ pc'[c] # "Pending") =>
                pc'[c] \in {"CacheHit", "Admitted", "Admitting"}]_vars

\* C4 witness: a call was admitted after the last instant at which calls
\* start, so it was admitted by a poll after having been denied.
C4_Witness ==
  \E c \in Callers : pc[c] = "Admitted" /\ now > MaxStart

\* C5: a configured limit of 0 or less is rejected at configuration time, so
\* no call ever reaches a rate limiter whose limit is not positive.
C5_NonPositiveLimitRejected ==
  \A c \in Callers : pc[c] # "Pending" => rateLimit >= 1

\* The configured TTL in milliseconds.
TTLms == API_CACHE_TTL_SECONDS * MsPerSecond

\* The call of c starts in this step.
Starts(c) == pc[c] = "Pending" /\ pc'[c] # "Pending"

\* The entry stored for key k is at most TTL old.
WithinTTL(k) == apiCache[k].present /\ now - apiCache[k].stored <= TTLms

C7_HitLeavesLimiter ==
  [][\A c \in Callers :
       /\ (pc[c] = "Pending" /\ pc'[c] = "CacheHit") =>
            /\ requestTimestamps' = requestTimestamps
            /\ admitLog' = admitLog
            /\ due' = due
       /\ pc[c] = "CacheHit" => pc'[c] \notin {"Admitting", "Admitted", "Requesting"}
    ]_vars

\* C7 witness: a call was answered from the cache while the window was full.
C7_Witness ==
  \E c \in Callers :
    /\ pc[c] = "CacheHit"
    /\ RecentCount(requestTimestamps, now) = rateLimit

SettledOnResponse(c) ==
  pc[c] \in {"Succeeded", "Failed"} /\ result[c].data # Undefined

\* C10 as stated: every HTTP response received, whatever its status, makes
\* the call succeed with an envelope that is cached under the call's key.
C10_AnyResponseSucceeds ==
  \A c \in Callers :
    SettledOnResponse(c) =>
      /\ pc[c] = "Succeeded"
      /\ result[c].kind = "envelope"
      /\ apiCache[cacheKey[c]].present /\ apiCache[cacheKey[c]].v = result[c]

\* C10 amended: a response with a 2xx status makes the call succeed with an
\* envelope of its status and body, cached under the call's key; a response
\* with any other status makes the call fail with an error carrying that
\* status, and is not cached.
C10_OnlySuccessStatusSucceeds ==
  \A c \in Callers :
    SettledOnResponse(c) =>
      IF result[c].status >= 200 /\ result[c].status < 300
      THEN /\ pc[c] = "Succeeded"
           /\ result[c].kind = "envelope"
           /\ apiCache[cacheKey[c]].present /\ apiCache[cacheKey[c]].v = result[c]
      ELSE /\ pc[c] = "Failed"
           /\ result[c].kind = "error"
           /\ \A k \in Keys : apiCache[k].present => apiCache[k].v.status # result[c].status

\* C10 witness: a 403 response has surfaced as an error with status 403.
C10_Witness ==
  \E c \in Callers :
    /\ SettledOnResponse(c)
    /\ pc[c] = "Failed"
    /\ result[c].status = 403

\* ---------------------------------------------------------------------
\* C11: a call whose upstream request failed with an error carrying a
\* response fails with a SemrushApiError whose message is the body's nested
\* error.message when the body has a (non-empty) one and the transport
\* error's own message otherwise, whose status is the upstream status, and
\* whose response field is the raw body.
C11_ResponseErrorNormalized ==
  \A c \in Callers :
    (pc[c] = "Failed" /\ settled[c].kind = "response") =>
      /\ result[c].kind = "error"
      /\ result[c].status = settled[c].status
      /\ result[c].data = settled[c].body
      /\ result[c].message =
           IF settled[c].body = "denied" THEN "Access denied"
           ELSE "Request failed with status code 403"

\* C11 witness: a 403 whose body carries error.message "Access denied" has
\* failed the call with message "Access denied" and status 403.
C11_Witness ==
  \E c \in Callers :
    /\ pc[c] = "Failed"
    /\ settled[c] = [kind |-> "response", status |-> 403, body |-> "denied"]
    /\ result[c].message = "Access denied"
    /\ result[c].status = 403

\* ---------------------------------------------------------------------
\* C12: a call whose upstream request failed without a response (network
\* failure, or an exception that is not a transport error) fails with a
\* SemrushApiError of status exactly 500 carrying the failure's message and
\* no body; every failed call holds a SemrushApiError and nothing else.
C12_NoResponseIsStatus500 ==
  \A c \in Callers :
    /\ pc[c] = "Failed" => result[c].kind = "error"
    /\ (pc[c] = "Failed" /\ settled[c].kind \in {"network", "exception"}) =>
         /\ result[c].status = 500
         /\ result[c].data = Undefined
         /\ result[c].message =
              IF settled[c].kind = "network" THEN "connect ECONNREFUSED"
              ELSE "unexpected"

\* C12 witness: a network failure has failed the call with status 500.
C12_Witness ==
  \E c \in Callers :
    /\ pc[c] = "Failed"
    /\ settled[c].kind = "network"
    /\ result[c].status = 500

\* ---------------------------------------------------------------------
\* C13: every call follows one of the paths Pending -> CacheHit -> Returned
\* or Pending -> Admitting -> Requesting -> (Succeeded -> Returned |
\* Failed -> ErrorSurfaced).  "Admitted" is the end of the Admitting phase:
\* the slot has been granted and the request is about to be issued.  The
\* lookup decides the first step (hit: CacheHit, miss: admission), a slot is
\* taken exactly in the step that grants admission, the request is issued
\* only after the grant, and no step leaves Returned or ErrorSurfaced, so a
\* call takes one slot and issues one request at most and never retries.
CallEdges ==
  {<<"Pending", "CacheHit">>, <<"Pending", "Admitting">>, <<"Pending", "Admitted">>,
   <<"Admitting", "Admitted">>, <<"Admitted", "Requesting">>,
   <<"Requesting", "Succeeded">>, <<"Requesting", "Failed">>,
   <<"CacheHit", "Returned">>, <<"Succeeded", "Returned">>,
   <<"Failed", "ErrorSurfaced">>}

Granted == {c \in Callers : pc[c] # "Admitted" /\ pc'[c] = "Admitted"}

C13_SingleCallStateMachine ==
  [][/\ \A c \in Callers :
          pc'[c] # pc[c] =>
            /\ <<pc[c], pc'[c]>> \in CallEdges
            /\ pc[c] = "Pending" =>
                 (pc'[c] = "CacheHit" <=> CacheLive(apiCache[cacheKey'[c]], now))
      /\ Len(admitLog') = Len(admitLog) + Cardinality(Granted)
      /\ Cardinality(Granted) <= 1]_vars

\* C13 witness: all calls have ended, one of them with an error, and
\* only two slots were ever taken (the third call was a cache hit).
C13_Witness ==
  /\ \A c \in Callers : pc[c] \in {"Returned", "ErrorSurfaced"}
  /\ \E c \in Callers : pc[c] = "ErrorSurfaced"
  /\ \E c \in Callers : pc[c] = "Returned"
  /\ Len(admitLog) = 2

\* ---------------------------------------------------------------------
\* C14: while a call is suspended waiting for admission or for the upstream
\* response, and no continuation is queued ahead, every other call can take
\* its next step: the next call can start with any key, a waiting call whose
\* timer is due can poll, and an outstanding request can settle.  A queued
\* continuation can always run.
NoContinuationQueued ==
  \A c \in Callers : pc[c] \notin {"Admitted", "CacheHit", "Succeeded", "Failed"}

Suspended(c) == pc[c] \in {"Admitting", "Requesting"}

C14_InFlightCallsDoNotBlock ==
  /\ \A c \in Callers :
       /\ pc[c] = "Admitted" => ENABLED IssueRequest(c)
       /\ pc[c] \in {"CacheHit", "Succeeded", "Failed"} => ENABLED Deliver(c)
  /\ \A c \in Callers :
       (Suspended(c) /\ NoContinuationQueued) =>
         \A d \in Callers \ {c} :
           /\ (pc[d] = "Pending" /\ now <= MaxStart
                  /\ \A e \in Callers : e < d => pc[e] # "Pending") =>
                \A k \in Keys : ENABLED makeRequest(d, k)
           /\ (pc[d] = "Admitting" /\ now >= due[d]) => ENABLED Poll(d)
           /\ pc[d] = "Requesting" =>
                \A o \in Outcomes : ENABLED HttpSettle(d, o)

\* C14 witness: a call that started later has returned while an earlier call
\* is still suspended, and another one is still waiting to start.
C14_Witness ==
  \E c, d, e \in Callers :
    /\ c < d /\ d < e
    /\ Suspended(c)
    /\ pc[d] = "Returned"
    /\ pc[e] = "Pending"

\* ---------------------------------------------------------------------
\* C15: every request an operation sends carries exactly one parameter key,
\* whose value is the client's API key; and whatever params object reaches
\* makeRequest, one that already has a property named key included, the
\* request parameters built from it carry the client's key.
ParamsNamingKey ==
  {<<<<"type", Str("domain_ranks")>>, <<"key", Str("other")>>>>,
   <<<<"key", Str("other")>>, <<"type", Str("domain_ranks")>>>>,
   <<<<"key", Absent>>>>}

KeyCount(params) == Cardinality({i \in 1..Len(params) : params[i][1] = "key"})

C15_CredentialInjected ==
  client = "ready" =>
    /\ request # NoRequest =>
         /\ KeyCount(request.params) = 1
         /\ ParamValue(request.params, "key") = Str(apiKey)
    /\ \A p \in ParamsNamingKey :
         /\ KeyCount(requestParams(p, apiKey)) = 1
         /\ ParamValue(requestParams(p, apiKey), "key") = Str(apiKey)

\* C15 witness: a Trends request was built and carries the key "keyB" the
\* client was constructed with.
C15_Witness ==
  /\ apiKey = "keyB"
  /\ invocation.op = "getTrafficSummary"
  /\ ParamValue(request.params, "key") = Str("keyB")

\* ---------------------------------------------------------------------
\* C16: a client is never constructed from an undefined or empty API key:
\* with such a key the constructor fails, no operation is ever called, no
\* request is built, and the cache, the limiter and every call are left
\* untouched.  With a non-empty key the constructor does not fail.
C16_NoClientWithoutKey ==
  /\ apiKey \in {Undefined, ""} =>
       /\ client \in {"unconstructed", "failed"}
       /\ invocation = NoInvocation
       /\ request = NoRequest
       /\ requestTimestamps = <<>>
       /\ \A k \in Keys : apiCache[k] = NoEntry
       /\ \A c \in Callers : pc[c] = "Pending"
  /\ apiKey \notin {Undefined, ""} => client # "failed"

\* C16 witness: construction with the empty key has failed.
C16_Witness ==
  /\ apiKey = ""
  /\ client = "failed"

\* ---------------------------------------------------------------------
\* C17: the cache key of the request just built equals the cache key of the
\* request of any operation call under any credential exactly when the two
\* requests are the same on the wire (same URL, same parameters, same
\* credential), so a cache entry is only ever looked up for the request it
\* was stored for.
BuiltRequest(inv, key) ==
  Request(OperationRequest(inv).url,
          requestParams(OperationRequest(inv).params, key))

C17_CacheKeySeparatesRequests ==
  request # NoRequest =>
    \A inv \in Invocations, key \in EnvApiKeys \ {Undefined, ""} :
      LET other == BuiltRequest(inv, key) IN
        (CacheKey(request.url, request.params) = CacheKey(other.url, other.params))
          <=> (WireRequest(request.url, request.params)
                 = WireRequest(other.url, other.params))

\* C17 witness: getDomainOverview was called without a database, and its
\* cache key is the one of the same call with database "us" and differs
\* from the one of the same call under the other credential.
C17_Witness ==
  /\ invocation.op = "getDomainOverview"
  /\ invocation.database = Absent
  /\ apiKey = "keyA"
  /\ LET same  == BuiltRequest([invocation EXCEPT !.database = Str("us")], "keyA")
         other == BuiltRequest(invocation, "keyB")
     IN /\ CacheKey(request.url, request.params) = CacheKey(same.url, same.params)
        /\ CacheKey(request.url, request.params) # CacheKey(other.url, other.params)

\* ---------------------------------------------------------------------
\* C18: when a call has failed and its error is about to be surfaced, a
\* line at error severity has been logged for it that carries both the
\* error's message and its numeric status.
LogPrefixes ==
  {"API request failed: ", "Unknown error: "}
    \cup {"Error while executing tool " \o ToolOf(k) \o ": " : k \in Keys}

LineCarriesMessage(line, message) ==
  \E pre \in LogPrefixes : line.text = pre \o message

\* Of the messages of the model, only axios's "Request failed with status
\* code N" spells a status out.
LineCarriesStatus(line, status) ==
  \E pre \in LogPrefixes :
    line.text = pre \o "Request failed with status code " \o ToString(status)

C18_FailureLoggedWithStatus ==
  \A c \in Callers :
    pc[c] = "Failed" =>
      \E i \in 1..Len(logged[c]) :
        /\ logged[c][i].level = "error"
        /\ LineCarriesMessage(logged[c][i], result[c].message)
        /\ LineCarriesStatus(logged[c][i], result[c].status)

\* ---------------------------------------------------------------------
\* C19: when a call ends, the result its tool handler returns is, for an
\* envelope (fresh or cached), a non-error result whose text is the
\* serialized payload and nothing else, and, for a SemrushApiError, an
\* isError result whose text carries the error's message and numeric
\* status.  A result is an error result exactly when the call failed, and
\* every call that ends has a result.
C19_ToolResultContract ==
  \A c \in Callers :
    /\ pc[c] \in {"CacheHit", "Succeeded"} =>
         toolResult[c] = [isError |-> FALSE, text |-> "\"" \o result[c].data \o "\""]
    /\ pc[c] = "Failed" =>
         toolResult[c] =
           [isError |-> TRUE,
            text |-> "Error: " \o result[c].message \o ". Status: "
                       \o ToString(result[c].status)]
    /\ toolResult[c] # NoToolResult <=> pc[c] \in {"CacheHit", "Succeeded", "Failed"}
    /\ toolResult[c].isError <=> pc[c] = "Failed"

\* C19 witness: the handler returns the error result of a 403 whose body
\* said "Access denied".
C19_Witness ==
  \E c \in Callers :
    /\ pc[c] = "Failed"
    /\ toolResult[c] = [isError |-> TRUE, text |-> "Error: Access denied. Status: 403"]

\* ---------------------------------------------------------------------
\* C20: the request built for a call of a primary-endpoint operation goes to
\* https://api.semrush.com/ and carries the credential, a type that depends
\* on the operation alone and is shared with no other operation, the call's
\* subject, and an export_columns string that depends on the operation
\* alone, whatever was called before; getKeywordOverviewSingleDb("seo",
\* "us") sends type=phrase_this, phrase=seo, database=us,
\* export_columns=Ph,Nq,Cp,Co,Nr,Td,In,Kd.
SubjectOf(inv) ==
  IF inv.list # <<>> THEN Str(Join(inv.list, ";")) ELSE inv.subject

CarriesSubject ==
  \E f \in {"domain", "target", "phrase"} :
    /\ HasParam(request.params, f)
    /\ ParamValue(request.params, f) = SubjectOf(invocation)

TypeFixedPerOperation ==
  /\ HasParam(request.params, "type")
  /\ \A inv \in Invocations :
       inv.op \in PrimaryOps =>
         ((ParamValue(BuiltRequest(inv, apiKey).params, "type")
             = ParamValue(request.params, "type")) <=> (inv.op = invocation.op))

ColumnsFixedPerOperation ==
  /\ HasParam(request.params, "export_columns")
  /\ \A inv \in Invocations :
       inv.op = invocation.op =>
         ParamValue(BuiltRequest(inv, apiKey).params, "export_columns")
           = ParamValue(request.params, "export_columns")

SingleDbExample ==
  invocation = Invocation("getKeywordOverviewSingleDb", Str("seo"), <<>>,
                          Str("us"), Absent) =>
    WireRequest(request.url, request.params) =
      "https://api.semrush.com/?type=phrase_this&phrase=seo&database=us"
        \o "&export_columns=Ph,Nq,Cp,Co,Nr,Td,In,Kd&key=" \o apiKey

\* C20 as stated: every primary-endpoint operation sends a subject and an
\* export_columns string.
C20_EveryPrimaryOperationSendsColumns ==
  invocation.op \in PrimaryOps =>
    /\ request.url = "https://api.semrush.com/"
    /\ ParamValue(request.params, "key") = Str(apiKey)
    /\ TypeFixedPerOperation
    /\ CarriesSubject
    /\ ColumnsFixedPerOperation
    /\ SingleDbExample

\* C20 amended: as above for every primary-endpoint operation other than
\* getApiUnitsBalance, which sends the credential and type=api_units and
\* nothing else.
C20_FixedParameterTable ==
  invocation.op \in PrimaryOps =>
    /\ request.url = "https://api.semrush.com/"
    /\ ParamValue(request.params, "key") = Str(apiKey)
    /\ TypeFixedPerOperation
    /\ IF invocation.op = "getApiUnitsBalance"
       THEN WireRequest(request.url, request.params)
              = "https://api.semrush.com/?type=api_units&key=" \o apiKey
       ELSE /\ CarriesSubject
            /\ ColumnsFixedPerOperation
            /\ SingleDbExample

\* C20 witness: getKeywordOverviewSingleDb("seo", "us") has built its
\* request with the column list of phrase_this.
C20_Witness ==
  /\ invocation = Invocation("getKeywordOverviewSingleDb", Str("seo"), <<>>,
                             Str("us"), Absent)
  /\ ParamValue(request.params, "export_columns") = Str("Ph,Nq,Cp,Co,Nr,Td,In,Kd")
  /\ ParamValue(request.params, "type") = Str("phrase_this")

\* ---------------------------------------------------------------------
\* The operations that accept an optional display limit.
LimitOps == DefaultDbLimitOps \cup TargetOps \cup DbLimitOps

\* "name":"value", written out for a string-valued property.
Member(name, value) == "\"" \o name \o "\":\"" \o value \o "\""

\* The name under which the request just built carries its subject.
SubjectField ==
  IF HasParam(request.params, "domain") THEN "domain"
  ELSE IF HasParam(request.params, "target") THEN "target"
  ELSE "phrase"

\* The cache key of the request just built when it has its type, subject,
\* database (if the operation takes one), export_columns and credential and
\* no other property.
KeyWithoutLimit ==
  request.url \o ":{"
    \o Member("type", ParamValue(request.params, "type").v) \o ","
    \o Member(SubjectField, ParamValue(request.params, SubjectField).v) \o ","
    \o (IF invocation.op \in TargetOps THEN ""
        ELSE Member("database", ParamValue(request.params, "database").v) \o ",")
    \o Member("export_columns", ParamValue(request.params, "export_columns").v)
    \o "," \o Member("key", apiKey) \o "}"

\* C21: when an operation that accepts a display limit is called without
\* one, the parameters of the request it builds have no display_limit
\* property at all (not one whose value is undefined, null or 0), and the
\* cache key is the serialization of the other properties alone.
C21_LimitOmittedWhenNotSupplied ==
  (invocation.op \in LimitOps /\ invocation.limit = Absent) =>
    /\ ~HasParam(request.params, "display_limit")
    /\ \A i \in 1..Len(request.params) :
         request.params[i][2] \notin {Absent, Num(0), Str("null")}
    /\ CacheKey(request.url, request.params) = KeyWithoutLimit

\* C21 witness: getDomainOrganicKeywords("example.com") was called with
\* neither database nor limit and its request has five properties.
C21_Witness ==
  /\ invocation = Invocation("getDomainOrganicKeywords", Str("example.com"),
                             <<>>, Absent, Absent)
  /\ Len(request.params) = 5
  /\ CacheKey(request.url, request.params) = KeyWithoutLimit

\* ---------------------------------------------------------------------
\* The elements of a list of one to three strings written in order with sep
\* between neighbours.
Written(list, sep) ==
  CASE Len(list) = 1 -> list[1]
    [] Len(list) = 2 -> list[1] \o sep \o list[2]
    [] Len(list) = 3 -> list[1] \o sep \o list[2] \o sep \o list[3]

\* C22: an operation called with an array sends it as one string, the
\* elements in their order with a delimiter between neighbours: a semicolon
\* in the phrase of getBatchKeywordOverview and getKeywordDifficulty, a
\* comma in the domains of getTrafficSummary; ["a","b","c"] is sent as
\* phrase=a;b;c and as domains=a,b,c.
C22_ListsJoinedInOrder ==
  /\ invocation.op \in ListOps =>
       /\ ParamValue(request.params, "phrase") = Str(Written(invocation.list, ";"))
       /\ invocation.list = <<"a", "b", "c">> =>
            WireRequest(request.url, <<request.params[2]>>)
              = "https://api.semrush.com/?phrase=a;b;c"
  /\ invocation.op = "getTrafficSummary" =>
       /\ ParamValue(request.params, "domains") = Str(Written(invocation.list, ","))
       /\ invocation.list = <<"a", "b", "c">> =>
            WireRequest(request.url, <<request.params[1]>>)
              = "https://api.semrush.com/analytics/ta/summary?domains=a,b,c"

\* C22 witness: getBatchKeywordOverview(["a","b","c"], "uk") has built its
\* request.
C22_Witness ==
  /\ invocation = Invocation("getBatchKeywordOverview", Absent,
                             <<"a", "b", "c">>, Str("uk"), Absent)
  /\ ParamValue(request.params, "phrase") = Str("a;b;c")
  /\ ParamValue(request.params, "database") = Str("uk")

\* ---------------------------------------------------------------------
\* The operations that take a database or country code, and the name under
\* which the request just built carries it.
CodeOps == (PrimaryOps \ (TargetOps \cup {"getApiUnitsBalance"}))
             \cup {"getTrafficSummary", "getTrafficSources"}

CodeField == IF invocation.op \in PrimaryOps THEN "database" ELSE "country"

\* The code the caller supplied: to the tool, if the operation was called by
\* a tool's handler, else to the operation.
SuppliedCode ==
  IF toolCall = NoToolCall THEN invocation.database ELSE toolCall.database

RequiredDatabaseTools ==
  {"semrush_keyword_overview_single_db", "semrush_batch_keyword_overview",
   "semrush_keyword_organic_results", "semrush_keyword_paid_results",
   "semrush_keyword_ads_history", "semrush_broad_match_keywords",
   "semrush_phrase_questions", "semrush_keyword_difficulty"}

\* C24: a call of a tool documented with a required database that has no
\* database is answered with an error result and builds no request.
C24_DatabaseRequired ==
  (toolCall.name \in RequiredDatabaseTools /\ toolCall.database = Absent) =>
    /\ toolReply.isError
    /\ request = NoRequest

\* ---------------------------------------------------------------------
TrendsOps == {"getTrafficSummary", "getTrafficSources"}

\* C25: the request built for getTrafficSummary goes to
\* https://api.semrush.com/analytics/ta/summary and the one for
\* getTrafficSources to https://api.semrush.com/analytics/ta/sources, each
\* with date=all, a country and the credential; the request of every other
\* operation goes to https://api.semrush.com/.
C25_EndpointSelection ==
  invocation.op # "none" =>
    /\ invocation.op = "getTrafficSummary" =>
         request.url = "https://api.semrush.com/analytics/ta/summary"
    /\ invocation.op = "getTrafficSources" =>
         request.url = "https://api.semrush.com/analytics/ta/sources"
    /\ invocation.op \in TrendsOps =>
         /\ ParamValue(request.params, "date") = Str("all")
         /\ ParamValue(request.params, "country") \in Databases
         /\ ParamValue(request.params, "key") = Str(apiKey)
    /\ invocation.op \notin TrendsOps => request.url = "https://api.semrush.com/"

\* C25 witness: getTrafficSources("example.com") has built its request.
C25_Witness ==
  /\ invocation = Invocation("getTrafficSources", Str("example.com"), <<>>,
                             Absent, Absent)
  /\ WireRequest(request.url, request.params)
       = "https://api.semrush.com/analytics/ta/sources?domain=example.com"
           \o "&country=us&date=all&key=" \o apiKey

\* ---------------------------------------------------------------------
\* The limit the caller supplied: to the tool, if the operation was called
\* by a tool's handler, else to the operation.
SuppliedLimit ==
  IF toolCall = NoToolCall THEN invocation.limit ELSE toolCall.limit

\* C28: the request built for a limit-accepting operation has a
\* display_limit exactly when the limit supplied is a number other than 0,
\* and then it is that number as supplied, negative and fractional ones
\* included; with limit 0 the request and its cache key are those of the
\* same call without a limit.
C28_ZeroLimitIsNoLimit ==
  invocation.op \in LimitOps =>
    LET nonzero == SuppliedLimit.t = "num" /\ SuppliedLimit.v # "0" IN
      /\ HasParam(request.params, "display_limit") <=> nonzero
      /\ nonzero =>
           /\ ParamValue(request.params, "display_limit") = SuppliedLimit
           /\ QueryString(<<request.params[Len(request.params) - 1]>>)
                = "display_limit=" \o SuppliedLimit.v
      /\ ~nonzero =>
           /\ CacheKey(request.url, request.params) = KeyWithoutLimit
           /\ request = BuiltRequest([invocation EXCEPT !.limit = Absent], apiKey)

\* C28 witness: getBacklinks("example.com", 0) has built a request without
\* display_limit.
C28_Witness ==
  /\ invocation = Invocation("getBacklinks", Str("example.com"), <<>>, Absent,
                             Num(0))
  /\ ~HasParam(request.params, "display_limit")
  /\ CacheKey(request.url, request.params) = KeyWithoutLimit

\* Limits other than 0 and positive integers reach the request unchanged.
C28_WitnessUnchanged ==
  /\ invocation.op = "getBacklinks"
  /\ invocation.limit = Num(-3)
  /\ ParamValue(request.params, "display_limit") = Num(-3)

\* ---------------------------------------------------------------------
\* Call c is past the cache lookup and has not settled: it waits for a
\* slot, holds one, or has its request under way.
Underway(c) == pc[c] \in {"Admitting", "Admitted", "Requesting"}

\* C26: a call that starts while another call for the same key is under way
\* is not joined to it: unless a live entry is in the cache it misses and
\* asks the limiter for a slot of its own; every admission records one more
\* timestamp, every admitted call issues its own request, and every request
\* that succeeds overwrites the entry of its key with its own envelope, so
\* that the cache holds the envelope of the request that completed last.
C26_NoCoalescing ==
  [][\A c \in Callers :
       /\ (/\ Starts(c)
           /\ \E d \in Callers \ {c} : Underway(d) /\ cacheKey[d] = cacheKey'[c]
           /\ ~WithinTTL(cacheKey'[c])) =>
            /\ pc'[c] \in {"Admitting", "Admitted"}
            /\ result'[c] = NoResult
       /\ (pc[c] # "Admitted" /\ pc'[c] = "Admitted") =>
            /\ Len(admitLog') = Len(admitLog) + 1
            /\ Len(requestTimestamps')
                 = Len(FilterTimestamps(requestTimestamps, now)) + 1
       /\ (pc[c] = "Admitted" /\ pc'[c] # "Admitted") => pc'[c] = "Requesting"
       /\ (pc[c] = "Requesting" /\ pc'[c] = "Succeeded") =>
            /\ apiCache'[cacheKey[c]].v.data = settled'[c].body
            /\ apiCache'[cacheKey[c]].stored = now
            /\ \A k \in Keys \ {cacheKey[c]} : apiCache'[k] = apiCache[k]
       /\ apiCache' # apiCache =>
            \E d \in Callers : pc[d] = "Requesting" /\ pc'[d] = "Succeeded"
    ]_vars

\* C26 witness: two calls for the same key both have a request under way,
\* each admitted on its own.
C26_Witness ==
  \E c, d \in Callers :
    /\ c # d
    /\ cacheKey[c] = cacheKey[d]
    /\ pc[c] = "Requesting"
    /\ pc[d] = "Requesting"
    /\ Len(admitLog) >= 2

\* ---------------------------------------------------------------------
\* Caller c is denied in this step: its timer is armed anew.
Denied(c) == pc'[c] = "Admitting" /\ due'[c] # due[c]

\* C27: a slot taken at admission is never given back.  No step removes a
\* timestamp that is less than 1000 ms old; the settling of a request, with
\* success or with failure, and the return of its result leave the sequence
\* as it is; a denied attempt prunes the stale timestamps and records
\* nothing.
C27_SlotNeverReturned ==
  [][ /\ LET kept == FilterTimestamps(requestTimestamps, now)
             left == FilterTimestamps(requestTimestamps', now)
         IN /\ Len(left) >= Len(kept)
            /\ SubSeq(left, 1, Len(kept)) = kept
      /\ \A c \in Callers :
           /\ (pc[c] = "Requesting" /\ pc'[c] \in {"Succeeded", "Failed"}) =>
                requestTimestamps' = requestTimestamps
           /\ (pc[c] \in {"Succeeded", "Failed"} /\ pc'[c] # pc[c]) =>
                requestTimestamps' = requestTimestamps
           /\ Denied(c) =>
                /\ requestTimestamps' = FilterTimestamps(requestTimestamps, now)
                /\ admitLog' = admitLog
    ]_vars

\* C27 witness: with a limit of one, the first call has failed and its
\* timestamp, the only one, has just kept the second call from admission.
C27_Witness ==
  /\ rateLimit = 1
  /\ pc[1] = "ErrorSurfaced"
  /\ pc[2] = "Admitting"
  /\ due[2] = now + PollInterval
  /\ \A c \in Callers : c > 2 => pc[c] = "Pending"
  /\ Len(requestTimestamps) = 1
  /\ now - requestTimestamps[1] < Window

\* ---------------------------------------------------------------------
\* The call names no tool, or its arguments are not what the tool's schema
\* asks for (for the tools of PipelineCalls: a subject that is a string and,
\* if there is a limit, a number).
FailsBeforeOperation(call) ==
  \/ call.name \notin {"semrush_domain_overview", "semrush_keyword_overview"}
  \/ call.subject.t # "str"
  \/ call.limit.t \notin {"num", "undefined"}

\* C29: a tool call that names no tool or has invalid arguments ends in the
\* step that handles it with a result that has isError set, and that step
\* leaves the cache, the limiter's timestamps and every call's request
\* state as they were; such a call never goes on to a request.
C29_RejectedCallLeavesPipeline ==
  [][\A c \in Callers :
       /\ \A call \in PipelineCalls :
            (FailsBeforeOperation(call) /\ handleToolCall(c, call)) =>
              /\ toolResult'[c].isError
              /\ toolResult'[c].text # Undefined
              /\ pc'[c] = "Rejected"
              /\ cacheKey'[c] = NoKey
              /\ UNCHANGED <<apiCache, requestTimestamps, admitLog, due, result,
                             settled, rateLimit>>
              /\ \A d \in Callers \ {c} : pc'[d] = pc[d]
       /\ pc[c] = "Rejected" =>
            /\ pc'[c] = "Rejected"
            /\ toolResult'[c] = toolResult[c]
            /\ cacheKey'[c] = NoKey
    ]_vars

\* C29 witness: a call of an unknown tool was turned down while another
\* call's request was under way, and a call with an invalid limit as well.
C29_Witness ==
  \E c, d \in Callers :
    /\ pc[c] = "Rejected"
    /\ toolResult[c] = [isError |-> TRUE,
                        text |-> "Unknown tool: semrush_nonexistent"]
    /\ pc[d] = "Requesting"

C29_WitnessValidation ==
  \E c \in Callers :
    /\ pc[c] = "Rejected"
    /\ toolResult[c] = [isError |-> TRUE,
                        text |-> "Unexpected error: invalid_type: limit"]
    /\ Len(requestTimestamps) = 1

\* ---------------------------------------------------------------------
\* The request handled last had no session id, or one that was registered
\* when it arrived.
NoSessionId == ~Truthy(httpRequest.id)
Registered == httpRequest.id \in httpRequest.sessions

\* C30: on /mcp a request is handled by an existing transport only if its
\* session id is registered, a transport is created only for a POST without
\* session id whose body is an initialize request, and every other POST
\* (unregistered id, an id together with an initialize body, no id and
\* another body) and every GET or DELETE without a registered id is
\* answered 400 with the registry left as it was.
C30_SessionRouting ==
  httpRequest.path = "/mcp" =>
    /\ httpResponse.handler = "existing" => Registered
    /\ httpResponse.handler = "new" =>
         /\ httpRequest.method = "POST"
         /\ NoSessionId
         /\ isInitializeRequest(httpRequest.body)
    /\ (/\ httpRequest.method = "POST"
        /\ \/ ~NoSessionId /\ ~Registered
           \/ ~NoSessionId /\ isInitializeRequest(httpRequest.body)
           \/ NoSessionId /\ ~isInitializeRequest(httpRequest.body)) =>
         /\ httpResponse.status = "400"
         /\ transports = httpRequest.sessions
    /\ (/\ httpRequest.method \in {"GET", "DELETE"}
        /\ NoSessionId \/ ~Registered) =>
         /\ httpResponse.status = "400"
         /\ transports = httpRequest.sessions

\* ---------------------------------------------------------------------
\* The session ids drawn so far.
Established == {SessionId(n) : n \in 1..issued}

\* The request handled last named a session whose transport had been closed
\* before the request arrived.
NamesClosedSession ==
  /\ httpRequest.id \in closed
  /\ httpRequest.id \notin httpRequest.sessions

\* C31: every session established is registered in the map of its route
\* until its transport is closed and is in neither map afterwards, and a
\* request that names the session of a closed transport, on /mcp or on
\* /messages, is answered 400 by the route and handed to no transport.
C31_SessionLifecycle ==
  /\ transports \cup sseTransports \cup closed = Established
  /\ transports \cap closed = {}
  /\ sseTransports \cap closed = {}
  /\ transports \cap sseTransports = {}
  /\ NamesClosedSession =>
       /\ httpResponse.status = "400"
       /\ httpResponse.handler = "route"

\* C31 witness: a message was posted to /messages for a session whose event
\* stream had been closed, and was answered 400.
C31_Witness ==
  /\ httpRequest.path = "/messages"
  /\ NamesClosedSession
  /\ httpResponse = HttpResponse("400", "route")

\* A request on /mcp named a session ended by DELETE and was answered 400.
C31_WitnessStreamable ==
  /\ httpRequest.path = "/mcp"
  /\ httpRequest.method = "POST"
  /\ NamesClosedSession
  /\ httpResponse = HttpResponse("400", "route")

\* ---------------------------------------------------------------------
\* The server instance the transport of a registered session is connected
\* to.
InstanceOf(id) == (CHOOSE x \in connection : x[1] = id)[2]

\* C32: every registered session, streamable or legacy, is connected to the
\* server instance on which the handlers of tools/list and tools/call are
\* registered, so that the 19 Semrush tools can be listed and called on it.
C32_EverySessionServesTools ==
  \A id \in transports \cup sseTransports :
    /\ \E x \in connection : x[1] = id
    /\ InstanceOf(id) = "semrush-mcp-server"
    /\ ToolsOn(InstanceOf(id)) = ToolNames
    /\ Cardinality(ToolsOn(InstanceOf(id))) = DeclaredTools

====
